---- MODULE Spec2Model ----
(***************************************************************************)
(* A model of the ingestion pipeline engine of derrickcui/data-ingestion. *)
(*                                                                         *)
(* Part I  (specification Spec): PipelineRunner, the Source -> Processors  *)
(*          -> Sinks orchestrator of app/orchestrator/pipeline_runner.py,  *)
(*          with its thread pool fan-out over list sources.                *)
(* Part II (specification SpecId): the doc_id of one Item as it passes     *)
(*          IdProcessor, TikaProcessor and AssembleProcessor.              *)
(* Part III (SpecStable): independent runs of IdProcessor.                 *)
(* Part IV (SpecContent): the text of one Item through CleanProcessor,     *)
(*          ChunkProcessor, EmbedProcessor and AssembleProcessor.          *)
(* Part V  (SpecCrawl): WebCrawlerSource, its queue and its workers.       *)
(* Part VI (SpecEmail): EmailSource, its runs and its state file.          *)
(* Part VII (SpecClean): CleanProcessor applied to its own result.         *)
(***************************************************************************)
EXTENDS Integers, Sequences, FiniteSets, TLC

(***************************************************************************)
(* Bounds of the model.                                                    *)
(***************************************************************************)
NItems == 2          \* longest list a source returns
NSinks == 2          \* number of sinks handed to the runner
MaxWorkers == 2      \* largest max_workers the runner is constructed with

(***************************************************************************)
(* Part I.  PipelineRunner                                                 *)
(***************************************************************************)
VARIABLES
    procs,        \* the processors argument of __init__, in registration order
    processors,   \* self.processors
    max_workers,  \* self.max_workers
    source,       \* what source.read() returned: "dict" or "list"
    nitems,       \* how many Items it returned
    pc,           \* per Item: where run_single is
    idx,          \* per Item: index of the current processor / sink
    data,         \* per Item: the Item mapping, key -> value
    calls,        \* per Item: the processors whose process() was called, in order
    merged,       \* per Item: the processors whose output was merged by data.update
    writes,       \* per Item: the sinks whose write() was called, in order
    stored,       \* per Item: the sinks whose write() completed (the external stores)
    threw,        \* per Item: which call of process() or write() raised, if any
    out,          \* per Item: the value process() has just returned, or NoOut
    exc,          \* per Item: the exception run_single raised, or NoExc
    ret,          \* per Item: the value run_single returned, or NoRet
    summaries,    \* the summaries list of run()
    collected,    \* the futures the as_completed loop has consumed
    result        \* the outcome of run()

runnerVars == <<procs, processors, max_workers, source, nitems, pc, idx, data, calls,
                merged, writes, stored, threw, out, exc, ret, summaries, collected, result>>

Items == 1..NItems
Sinks == 1..NSinks

(* Values are pairs <<origin, name>>: a payload is named by who produced it. *)
Lit(s) == <<"lit", s>>
None == Lit("None")
Payload(by, k) == <<by, k>>
LenOf(v) == <<"len", v[2]>>
DimOf(v) == <<"dim", v[2]>>

(* The processors a runner may be given.  The reference processors declare  *)
(* order; Plugin is a duck-typed processor with no order attribute.         *)
ProcNames == {"IdProcessor", "ChunkProcessor", "AssembleProcessor", "Plugin"}

HasOrder(p) == p # "Plugin"

DeclaredOrder(p) ==
    CASE p = "IdProcessor" -> 5
      [] p = "ChunkProcessor" -> 30
      [] p = "AssembleProcessor" -> 100
      [] OTHER -> 0

DefaultOrder == 100

(* getattr(p, "order", 100) *)
OrderKey(p) == IF HasOrder(p) THEN DeclaredOrder(p) ELSE DefaultOrder

(* sorted(processors, key=...): Python's sort is stable.  Insertion after   *)
(* every element whose key is not greater keeps equal keys in input order.  *)
RECURSIVE InsertByOrder(_, _)
InsertByOrder(s, p) ==
    IF s = <<>> THEN <<p>>
    ELSE IF OrderKey(Head(s)) <= OrderKey(p)
         THEN <<Head(s)>> \o InsertByOrder(Tail(s), p)
         ELSE <<p>> \o s

RECURSIVE SortedByOrder(_)
SortedByOrder(ps) ==
    IF ps = <<>> THEN <<>>
    ELSE InsertByOrder(SortedByOrder(SubSeq(ps, 1, Len(ps) - 1)), ps[Len(ps)])

SortProcessorsUnsorted(ps) == ps

SortProcessors(ps) == SortedByOrder(ps)

(* The constructor lists the model draws from.  A single-Item run is given  *)
(* every arrangement of two or of three distinct processors; a batch run    *)
(* every arrangement of two (one pipeline per worker is then small enough   *)
(* for the product over workers to be explored in full).                    *)
ProcPairs == {l \in ProcNames \X ProcNames : l[1] # l[2]}

ProcTriples ==
    {l \in ProcNames \X ProcNames \X ProcNames :
        l[1] # l[2] /\ l[1] # l[3] /\ l[2] # l[3]}

(* ----------------------------------------------------------------------- *)
(* What process() may hand back.  Python values, by the two tests the       *)
(* runner applies to them: truthiness (the `or {}`) and isinstance(., dict).*)
(* ----------------------------------------------------------------------- *)
PyValues == {"dict", "{}", "None", "[]", "''", "0", "[1]", "'x'"}

Truthy(v) == v \in {"dict", "[1]", "'x'"}

IsDict(v) == v \in {"dict", "{}"}

(* The reference processors return a non-empty dict (or raise); a plugin    *)
(* may return anything.                                                     *)
Returns(p) == IF p = "Plugin" THEN PyValues ELSE {"dict"}

(* The keys of the dict a processor returns.  IdProcessor returns the Item  *)
(* itself, whose doc_id and metadata it has just set in place.              *)
ReturnedKeys(p) ==
    CASE p = "IdProcessor" -> {"doc_id", "metadata"}
      [] p = "ChunkProcessor" -> {"chunks"}
      [] p = "AssembleProcessor" -> {"solr_docs", "vector_docs", "doc_id"}
      [] OTHER -> {"plugin_out"}

ReturnedDict(p) == [k \in ReturnedKeys(p) |-> Payload(p, k)]

(* dict.update: key replacement *)
Update(d, u) == [k \in DOMAIN d \cup DOMAIN u |-> IF k \in DOMAIN u THEN u[k] ELSE d[k]]

Remove(d, k) == [j \in DOMAIN d \ {k} |-> d[j]]

(* data.get(k) *)
Get(d, k) == IF k \in DOMAIN d THEN d[k] ELSE None

(* What a processor does to the Item it is handed before it returns:        *)
(* AssembleProcessor deletes binary on entry.                               *)
InPlaceAtCall(p, d) ==
    IF p = "AssembleProcessor" /\ "binary" \in DOMAIN d THEN Remove(d, "binary") ELSE d

(* IdProcessor assigns data["doc_id"] and data["metadata"] before returning *)
InPlaceAtReturn(p, d) ==
    IF p = "IdProcessor" THEN Update(d, ReturnedDict(p)) ELSE d

(* The Item a source yields (FileSource.read). *)
SourceItem ==
    [k \in {"file_name", "binary"} |-> Payload("source", k)]

NoExc == [type |-> "none", processor |-> "", sink |-> 0]
NoRet == [status |-> Lit("unset")]
NoOut == "-"
NoThrow == [kind |-> "none", at |-> 0]

ProcessorErrorAnonymous(p) == [type |-> "RuntimeError", processor |-> "", sink |-> 0]

(* raise RuntimeError(f"Pipeline aborted due to failure in processor ...") *)
ProcessorError(p) == [type |-> "RuntimeError", processor |-> p, sink |-> 0]

(* a sink's own exception, re-raised as it is *)
SinkError(j) == [type |-> "SinkError", processor |-> "", sink |-> j]

(* str(e) *)
StrOf(e) ==
    IF e.type = "RuntimeError"
    THEN <<"Pipeline aborted due to failure in processor", e.processor>>
    ELSE <<"sink error", "">>

(* _build_summary *)
BuildSummaryLeaky(d) == Update(d, [status |-> Lit("ok")])

BuildSummary(d) ==
    [file_name       |-> Get(d, "file_name"),
     doc_id          |-> Get(d, "doc_id"),
     status          |-> IF "status" \in DOMAIN d THEN d["status"] ELSE Lit("ok"),
     chunk_count     |-> IF "chunks" \in DOMAIN d THEN LenOf(d["chunks"]) ELSE Lit("0"),
     embedding_count |-> IF "embeddings" \in DOMAIN d THEN LenOf(d["embeddings"]) ELSE Lit("0"),
     embedding_dim   |-> IF "embeddings" \in DOMAIN d THEN DimOf(d["embeddings"]) ELSE Lit("0"),
     source          |-> Get(d, "source"),
     elapsed_ms      |-> Get(d, "elapsed_ms")]

(* the entry run() appends when future.result() raises *)
FailedEntry(file_name, e) ==
    [file_name |-> file_name, status |-> Lit("failed"), error |-> StrOf(e)]

Running == {"loop", "inproc", "returned", "sinks"}

Present == 1..nitems

AtProcessor(i) == processors[idx[i]]

(* ----------------------------------------------------------------------- *)
(* Init: the runner is constructed and source.read() has returned.         *)
(* ----------------------------------------------------------------------- *)
RunnerInit ==
    /\ \/ /\ source = "dict"
          /\ nitems = 1
          /\ max_workers = 1
          /\ procs \in ProcPairs \cup ProcTriples
       \/ /\ source = "list"
          /\ nitems \in 0..NItems
          /\ max_workers \in 1..MaxWorkers
          /\ procs \in ProcPairs
    /\ processors = SortProcessors(procs)
    /\ pc = [i \in Items |->
               IF i > nitems THEN "none" ELSE IF source = "dict" THEN "loop" ELSE "queued"]
    /\ idx = [i \in Items |-> 1]
    /\ data = [i \in Items |-> SourceItem]
    /\ calls = [i \in Items |-> <<>>]
    /\ merged = [i \in Items |-> <<>>]
    /\ writes = [i \in Items |-> <<>>]
    /\ stored = [i \in Items |-> {}]
    /\ threw = [i \in Items |-> NoThrow]
    /\ out = [i \in Items |-> NoOut]
    /\ exc = [i \in Items |-> NoExc]
    /\ ret = [i \in Items |-> NoRet]
    /\ summaries = <<>>
    /\ collected = {}
    /\ result = [kind |-> "running"]

(* A pool thread takes the next submitted Item off the executor's queue.    *)
StartWorker(i) ==
    /\ source = "list"
    /\ pc[i] = "queued"
    /\ \A j \in Present : j < i => pc[j] # "queued"
    /\ Cardinality({j \in Present : pc[j] \in Running}) < max_workers
    /\ pc' = [pc EXCEPT ![i] = "loop"]
    /\ UNCHANGED <<procs, processors, max_workers, source, nitems, idx, data, calls,
                   merged, writes, stored, threw, out, exc, ret, summaries, collected, result>>

(* run_single: processor.process(data, context=context) is entered.         *)
CallProcessor(i) ==
    /\ pc[i] = "loop"
    /\ idx[i] <= Len(processors)
    /\ calls' = [calls EXCEPT ![i] = Append(@, AtProcessor(i))]
    /\ data' = [data EXCEPT ![i] = InPlaceAtCall(AtProcessor(i), @)]
    /\ pc' = [pc EXCEPT ![i] = "inproc"]
    /\ UNCHANGED <<procs, processors, max_workers, source, nitems, idx, merged, writes,
                   stored, threw, out, exc, ret, summaries, collected, result>>

(* process() returns the value v.                                           *)
ProcessReturns(i, v) ==
    /\ pc[i] = "inproc"
    /\ v \in Returns(AtProcessor(i))
    /\ out' = [out EXCEPT ![i] = v]
    /\ data' = [data EXCEPT ![i] = InPlaceAtReturn(AtProcessor(i), @)]
    /\ pc' = [pc EXCEPT ![i] = "returned"]
    /\ UNCHANGED <<procs, processors, max_workers, source, nitems, idx, calls, merged,
                   writes, stored, threw, exc, ret, summaries, collected, result>>

ProcessRaisesContinue(i) ==
    /\ pc[i] = "inproc"
    /\ threw' = [threw EXCEPT ![i] = [kind |-> "processor", at |-> Len(calls[i])]]
    /\ idx' = [idx EXCEPT ![i] = IF @ = Len(processors) THEN 1 ELSE @ + 1]
    /\ pc' = [pc EXCEPT ![i] = IF idx[i] = Len(processors) THEN "sinks" ELSE "loop"]
    /\ UNCHANGED <<procs, processors, max_workers, source, nitems, data, calls,
                   merged, writes, stored, out, exc, ret, summaries, collected, result>>

(* process() raises: the except clause logs and raises RuntimeError.        *)
ProcessRaises(i) ==
    /\ pc[i] = "inproc"
    /\ threw' = [threw EXCEPT ![i] = [kind |-> "processor", at |-> Len(calls[i])]]
    /\ exc' = [exc EXCEPT ![i] = ProcessorError(AtProcessor(i))]
    /\ pc' = [pc EXCEPT ![i] = "failed"]
    /\ UNCHANGED <<procs, processors, max_workers, source, nitems, idx, data, calls,
                   merged, writes, stored, out, ret, summaries, collected, result>>

(* out = process(...) or {} *)
OrEmptyDictStrict(v) == v

OrEmptyDict(v) == IF Truthy(v) THEN v ELSE "{}"

(* `or {}`, the isinstance test, data.update(out); then the loop goes on,   *)
(* or the TypeError is caught and RuntimeError raised.  The local `out`     *)
(* keeps what the `or {}` left in it.                                       *)
HandleReturn(i) ==
    /\ pc[i] = "returned"
    /\ LET o == OrEmptyDict(out[i])
           p == AtProcessor(i)
       IN  IF IsDict(o)
           THEN /\ data' = [data EXCEPT ![i] =
                              IF o = "dict" THEN Update(@, ReturnedDict(p)) ELSE @]
                /\ merged' = [merged EXCEPT ![i] = Append(@, p)]
                /\ idx' = [idx EXCEPT ![i] = IF @ = Len(processors) THEN 1 ELSE @ + 1]
                /\ pc' = [pc EXCEPT ![i] =
                            IF idx[i] = Len(processors) THEN "sinks" ELSE "loop"]
                /\ out' = [out EXCEPT ![i] = o]
                /\ exc' = exc
           ELSE /\ exc' = [exc EXCEPT ![i] = ProcessorError(p)]
                /\ pc' = [pc EXCEPT ![i] = "failed"]
                /\ UNCHANGED <<data, merged, idx, out>>
    /\ UNCHANGED <<procs, processors, max_workers, source, nitems, calls, writes,
                   stored, threw, ret, summaries, collected, result>>

(* sink.write(data, context=context) is called and returns (ok) or raises.  *)
SinkRaisesSwallowed(i, j) ==
    /\ idx' = [idx EXCEPT ![i] = j + 1]
    /\ UNCHANGED <<pc, exc>>

SinkRaises(i, j) ==
    /\ exc' = [exc EXCEPT ![i] = SinkError(j)]
    /\ pc' = [pc EXCEPT ![i] = "failed"]
    /\ idx' = idx

WriteSinkReversed(i, ok) ==
    /\ pc[i] = "sinks"
    /\ idx[i] <= NSinks
    /\ writes' = [writes EXCEPT ![i] = Append(@, NSinks + 1 - idx[i])]
    /\ IF ok
       THEN /\ stored' = [stored EXCEPT ![i] = @ \cup {NSinks + 1 - idx[i]}]
            /\ idx' = [idx EXCEPT ![i] = @ + 1]
            /\ UNCHANGED <<pc, exc, threw>>
       ELSE /\ threw' = [threw EXCEPT ![i] = [kind |-> "sink", at |-> Len(writes[i]) + 1]]
            /\ SinkRaises(i, NSinks + 1 - idx[i])
            /\ stored' = stored
    /\ UNCHANGED <<procs, processors, max_workers, source, nitems, data, calls, merged,
                   out, ret, summaries, collected, result>>

WriteSink(i, ok) ==
    /\ pc[i] = "sinks"
    /\ idx[i] <= NSinks
    /\ writes' = [writes EXCEPT ![i] = Append(@, idx[i])]
    /\ IF ok
       THEN /\ stored' = [stored EXCEPT ![i] = @ \cup {idx[i]}]
            /\ idx' = [idx EXCEPT ![i] = @ + 1]
            /\ UNCHANGED <<pc, exc, threw>>
       ELSE /\ threw' = [threw EXCEPT ![i] = [kind |-> "sink", at |-> Len(writes[i]) + 1]]
            /\ SinkRaises(i, idx[i])
            /\ stored' = stored
    /\ UNCHANGED <<procs, processors, max_workers, source, nitems, data, calls, merged,
                   out, ret, summaries, collected, result>>

(* return self._build_summary(data) *)
Finish(i) ==
    /\ pc[i] = "sinks"
    /\ idx[i] > NSinks
    /\ ret' = [ret EXCEPT ![i] = BuildSummary(data[i])]
    /\ pc' = [pc EXCEPT ![i] = "done"]
    /\ UNCHANGED <<procs, processors, max_workers, source, nitems, idx, data, calls,
                   merged, writes, stored, threw, out, exc, summaries, collected, result>>

(* future_to_file[future]: d.get("file_name") taken when the Item was submitted *)
FutureFile(i) == Get(SourceItem, "file_name")

(* what one round of the as_completed loop appends for future i *)
CollectedEntry(i) ==
    IF pc[i] = "done" THEN ret[i] ELSE FailedEntry(FutureFile(i), exc[i])

CollectNoExcept(i) ==
    /\ source = "list"
    /\ i \in Present
    /\ pc[i] \in {"done", "failed"}
    /\ i \notin collected
    /\ result.kind = "running"
    /\ IF pc[i] = "done"
       THEN /\ summaries' = Append(summaries, [future |-> i, entry |-> ret[i]])
            /\ result' = result
       ELSE /\ summaries' = summaries
            /\ result' = [kind |-> "raised", error |-> exc[i]]
    /\ collected' = collected \cup {i}
    /\ UNCHANGED <<procs, processors, max_workers, source, nitems, pc, idx, data, calls,
                   merged, writes, stored, threw, out, exc, ret>>

(* run(): the as_completed loop takes a finished future.                    *)
Collect(i) ==
    /\ source = "list"
    /\ i \in Present
    /\ pc[i] \in {"done", "failed"}
    /\ i \notin collected
    /\ result.kind = "running"
    /\ summaries' = Append(summaries, [future |-> i, entry |-> CollectedEntry(i)])
    /\ collected' = collected \cup {i}
    /\ UNCHANGED <<procs, processors, max_workers, source, nitems, pc, idx, data, calls,
                   merged, writes, stored, threw, out, exc, ret, result>>

Entries(ss) == [n \in 1..Len(ss) |-> ss[n].entry]

(* run(): every future is consumed, the executor is shut down, the summary  *)
(* is returned.                                                             *)
ReturnBatch ==
    /\ source = "list"
    /\ result.kind = "running"
    /\ collected = Present
    /\ result' = [kind |-> "returned", total_files |-> Len(summaries),
                  files |-> Entries(summaries)]
    /\ UNCHANGED <<procs, processors, max_workers, source, nitems, pc, idx, data, calls,
                   merged, writes, stored, threw, out, exc, ret, summaries, collected>>

(* run(), single Item: run_single returned.                                 *)
ReturnSingle ==
    /\ source = "dict"
    /\ result.kind = "running"
    /\ pc[1] = "done"
    /\ result' = [kind |-> "returned", total_files |-> 1, files |-> <<ret[1]>>]
    /\ UNCHANGED <<procs, processors, max_workers, source, nitems, pc, idx, data, calls,
                   merged, writes, stored, threw, out, exc, ret, summaries, collected>>

(* run(), single Item: the exception of run_single leaves run().            *)
RaiseSingle ==
    /\ source = "dict"
    /\ result.kind = "running"
    /\ pc[1] = "failed"
    /\ result' = [kind |-> "raised", error |-> exc[1]]
    /\ UNCHANGED <<procs, processors, max_workers, source, nitems, pc, idx, data, calls,
                   merged, writes, stored, threw, out, exc, ret, summaries, collected>>

(***************************************************************************)
(* Part II.  The doc_id of one Item                                        *)
(*                                                                         *)
(* One Item is taken through IdProcessor (order 5), TikaProcessor (order   *)
(* 10) and AssembleProcessor (order 100) as run_single would, each output  *)
(* merged into the Item, and then summarised.  The processors of order 20  *)
(* to 50 neither read nor write doc_id or metadata and are left out.       *)
(* Strings are sequences of characters, so that strip() is computed.       *)
(***************************************************************************)
MaxStrLen == 2       \* longest string a caller supplies as an id or source_system

VARIABLES
    item_source,     \* the source the Item came from: "file", "text" or "web"
    user_metadata,   \* data["user_metadata"], key -> string ({} when absent)
    item_ids,        \* the id fields the source put on the Item root, key -> string
    doc_id,          \* data["doc_id"], None while absent
    metadata,        \* data["metadata"], key -> value ({} while absent)
    id_pc,           \* the processor that runs next, or "summary", "done", "failed"
    summary_doc_id   \* doc_id of the summary run_single returns, None before

idVars == <<item_source, user_metadata, item_ids, doc_id, metadata, id_pc, summary_doc_id>>

Chars == {" ", "a"}

Strs == UNION {[1..n -> Chars] : n \in 0..MaxStrLen}

(* Python truthiness of a string or None *)
TruthyStr(s) == s # None /\ s # <<>>

(* a or b *)
Or(a, b) == IF TruthyStr(a) THEN a ELSE b

(* the white space characters of the texts *)
WhiteSpace == {" ", "\n"}

RECURSIVE LStrip(_)
LStrip(s) == IF s # <<>> /\ Head(s) \in WhiteSpace THEN LStrip(Tail(s)) ELSE s

RECURSIVE RStrip(_)
RStrip(s) == IF s # <<>> /\ s[Len(s)] \in WhiteSpace THEN RStrip(SubSeq(s, 1, Len(s) - 1)) ELSE s

(* str.strip() *)
Strip(s) == RStrip(LStrip(s))

(* f"{v}": None is rendered as the word None *)
Format(v) == IF v = None THEN <<"N", "o", "n", "e">> ELSE v

IdKeys == {"doc_id", "business_id", "archive_no", "id"}

UmKeys == IdKeys \cup {"source_system", "source_name"}

(* where a caller can put a value: a key of user_metadata or of the Item root *)
Slots == ({"user_metadata"} \X UmKeys) \cup ({"root"} \X IdKeys)

(* the mapping at location loc when the caller fills slot s1 with v1 and    *)
(* slot s2 with v2 (None: the slot is left out)                             *)
Supplied(loc, s1, v1, s2, v2) ==
    [k \in {k \in UmKeys : \/ s1 = <<loc, k>> /\ v1 # None
                           \/ s2 = <<loc, k>> /\ v2 # None} |->
        IF s1 = <<loc, k>> /\ v1 # None THEN v1 ELSE v2]

(* the shape of the Item each source yields *)
HasBinary == item_source \in {"file", "web"}

HasRawText == item_source \in {"text", "web"}

SourceType == IF item_source = "file" THEN None ELSE <<item_source>>

(* WebCrawlerSource attaches self.user_metadata, which is None unless the   *)
(* caller gave metadata; the other sources leave the key out.               *)
UserMetadataIsNone == item_source = "web" /\ DOMAIN user_metadata = {}

(* clean_filename_keep_chinese: translate() deletes the garbage characters,  *)
(* "-" and "_" among them; re.sub then deletes what is neither a word       *)
(* character, a dot nor a hyphen.                                            *)
Garbage == {"-", "_", "!", "#"}

NotGarbage(c) == c \notin Garbage

AllowedChar(c) == c \in {"a", ".", "-", "_"}

CleanFilenameKeepChinese(text) == SelectSeq(SelectSeq(text, NotGarbage), AllowedChar)

Hex16OfContent(file_name, content) == <<"sha256", "\\0\\0", content>>

(* hexdigest()[:16] of sha256 over the cleaned file name, the separator and *)
(* the content                                                              *)
Hex16(file_name, content) ==
    <<"sha256">> \o CleanFilenameKeepChinese(file_name) \o <<"\\0\\0", content>>

(* preferred_id of IdProcessor.process *)
PreferredId(um, root_doc_id, ids) ==
    Or(Get(um, "doc_id"),
       Or(root_doc_id,
          Or(Get(ids, "business_id"),
             Or(Get(ids, "archive_no"), Get(ids, "id")))))

(* generate_stable_doc_id *)
GenerateStableDocId(content_for_hash, file_name, preferred_doc_id, source_system) ==
    IF TruthyStr(preferred_doc_id) /\ TruthyStr(Strip(preferred_doc_id))
    THEN Strip(preferred_doc_id)
    ELSE Format(source_system) \o <<"_">> \o Hex16(file_name, content_for_hash)

(* content_for_hash = data.get("binary") or data.get("raw_text") or ... *)
ContentForHash == IF HasBinary THEN "binary" ELSE "raw_text"

(* data.get("file_name", "unknown_source") *)
ItemFileName == <<"a", "-", "a", ".", "a">>

IdInit ==
    /\ item_source \in {"file", "text", "web"}
    /\ \E s1 \in Slots, s2 \in Slots : \E v1 \in Strs \cup {None}, v2 \in Strs \cup {None} :
          /\ user_metadata = Supplied("user_metadata", s1, v1, s2, v2)
          /\ item_ids = Supplied("root", s1, v1, s2, v2)
    /\ doc_id = Get(item_ids, "doc_id")
    /\ metadata = <<>>
    /\ id_pc = "IdProcessor"
    /\ summary_doc_id = None

(* IdProcessor.process: user_metadata.get on None raises AttributeError,    *)
(* which run_single turns into the failure of the Item.                     *)
IdProcessorRaises ==
    /\ id_pc = "IdProcessor"
    /\ UserMetadataIsNone
    /\ id_pc' = "failed"
    /\ UNCHANGED <<item_source, user_metadata, item_ids, doc_id, metadata, summary_doc_id>>

(* IdProcessor.process *)
IdProcessorProcess ==
    /\ id_pc = "IdProcessor"
    /\ ~UserMetadataIsNone
    /\ LET preferred_id == PreferredId(user_metadata, doc_id, item_ids)
           api_source_system == Get(user_metadata, "source_system")
           stable_doc_id == GenerateStableDocId(ContentForHash, ItemFileName, preferred_id, api_source_system)
       IN  /\ doc_id' = stable_doc_id
           /\ metadata' = Update(metadata, [k \in {"doc_id"} |-> stable_doc_id])
    /\ id_pc' = "TikaProcessor"
    /\ UNCHANGED <<item_source, user_metadata, item_ids, summary_doc_id>>

(* ingestion_method of TikaProcessor.process *)
IngestionMethod ==
    Or(Get(user_metadata, "ingestion_method"), Or(SourceType, Lit("file_upload")))

(* {"doc_id": stable_doc_id, "ingestion_method": ..., **user_metadata} *)
MergedMetadata(stable_doc_id) ==
    Update([k \in {"doc_id", "ingestion_method"} |->
               IF k = "doc_id" THEN stable_doc_id ELSE IngestionMethod],
           user_metadata)

(* _normalize_and_enhance_metadata, the identity fields of m; then         *)
(* m.update(user_metadata)                                                  *)
NormalizeAndEnhanceMetadata(stable_doc_id) ==
    Update([k \in {"doc_id", "ingestion_method", "source_name", "source_type"} |->
               CASE k = "doc_id" -> stable_doc_id
                 [] k = "ingestion_method" -> IngestionMethod
                 [] k = "source_name" -> ItemFileName
                 [] OTHER -> Lit("file_ext")],
           user_metadata)

(* TikaProcessor.process, web page with pre-fetched text *)
TikaWebText ==
    /\ id_pc = "TikaProcessor"
    /\ SourceType = <<"web">> /\ HasRawText
    /\ metadata' = Update(MergedMetadata(doc_id),
                          [k \in {"source_name", "source_type"} |->
                              IF k = "source_name" THEN ItemFileName ELSE Lit("file_ext")])
    /\ id_pc' = "AssembleProcessor"
    /\ UNCHANGED <<item_source, user_metadata, item_ids, doc_id, summary_doc_id>>

(* TikaProcessor.process, no binary *)
TikaNoBinary ==
    /\ id_pc = "TikaProcessor"
    /\ ~(SourceType = <<"web">> /\ HasRawText)
    /\ ~HasBinary
    /\ metadata' = MergedMetadata(doc_id)
    /\ id_pc' = "AssembleProcessor"
    /\ UNCHANGED <<item_source, user_metadata, item_ids, doc_id, summary_doc_id>>

(* TikaProcessor.process, the extractor answers *)
TikaExtract ==
    /\ id_pc = "TikaProcessor"
    /\ ~(SourceType = <<"web">> /\ HasRawText)
    /\ HasBinary
    /\ metadata' = NormalizeAndEnhanceMetadata(doc_id)
    /\ id_pc' = "AssembleProcessor"
    /\ UNCHANGED <<item_source, user_metadata, item_ids, doc_id, summary_doc_id>>

(* TikaProcessor.process, the extractor request fails: the exception is     *)
(* re-raised and run_single fails the Item.                                 *)
TikaRaises ==
    /\ id_pc = "TikaProcessor"
    /\ ~(SourceType = <<"web">> /\ HasRawText)
    /\ HasBinary
    /\ id_pc' = "failed"
    /\ UNCHANGED <<item_source, user_metadata, item_ids, doc_id, metadata, summary_doc_id>>

(* str(uuid.uuid4()) *)
Uuid4 == <<"uuid4">>

(* AssembleProcessor.process: doc_id = metadata.get("doc_id") or uuid4;     *)
(* the returned {"doc_id": doc_id, ...} is merged into the Item.            *)
AssembleProcess ==
    /\ id_pc = "AssembleProcessor"
    /\ doc_id' = Or(Get(metadata, "doc_id"), Uuid4)
    /\ id_pc' = "summary"
    /\ UNCHANGED <<item_source, user_metadata, item_ids, metadata, summary_doc_id>>

(* return self._build_summary(data) *)
Summarise ==
    /\ id_pc = "summary"
    /\ summary_doc_id' =
          BuildSummary([k \in {"file_name", "doc_id"} |->
                           IF k = "doc_id" THEN doc_id ELSE Lit("file_name")]).doc_id
    /\ id_pc' = "done"
    /\ UNCHANGED <<item_source, user_metadata, item_ids, doc_id, metadata>>

(***************************************************************************)
(* Part III.  Independent runs of IdProcessor (specification SpecStable)   *)
(*                                                                         *)
(* Each run is a request with a file name, bytes and, in its metadata, a   *)
(* source_system, and no id from the caller, sent as a file or as base64.  *)
(* A run has a number of its own, which stands for what differs between    *)
(* two runs of the same input (time, process, instance).                   *)
(***************************************************************************)
MaxNameLen == 2      \* longest file name

VARIABLES
    run_items,       \* per run: the request, [source, file_name, binary, source_system]
    run_doc_id       \* per run: data["doc_id"] once IdProcessor has returned, else None

stableVars == <<run_items, run_doc_id>>

Runs == {1, 2}

NameChars == {"a", "-", "."}

FileNames == UNION {[1..n -> NameChars] : n \in 1..MaxNameLen}

Binaries == {"B1", "B2"}

SourceSystems == {None, <<"a">>}

(* a doc_id that differs from run to run, as uuid4 does *)
UuidDocIdOfRun(r) == <<"uuid4", ToString(r)>>

(* base64.b64encode and base64.b64decode *)
B64Encode(b) == <<"b64", b>>

B64Decode(t) == t[2]

(* what the route hands the source of run r: the bytes, or their encoding *)
RunContent(r) ==
    IF run_items[r].source = "base64" THEN B64Encode(run_items[r].binary)
    ELSE run_items[r].binary

(* final_metadata of _make_runner, assigned to source.user_metadata when   *)
(* it is not empty                                                         *)
RunFinalMetadata(r) ==
    [k \in {k \in {"source_system"} : run_items[r].source_system # None} |->
        run_items[r].source_system]

(* read(): FileSource puts self.user_metadata on the Item when it is       *)
(* truthy; Base64Source returns file_name and the decoded binary only.     *)
ItemOfRun(r) ==
    IF run_items[r].source = "base64"
    THEN [file_name |-> run_items[r].file_name,
          binary |-> B64Decode(RunContent(r)),
          user_metadata |-> <<>>]
    ELSE [file_name |-> run_items[r].file_name,
          binary |-> RunContent(r),
          user_metadata |-> RunFinalMetadata(r)]

(* IdProcessor.process on the Item of run r: nothing but the Item is read *)
StableDocIdOfRun(r) ==
    GenerateStableDocId(ItemOfRun(r).binary, ItemOfRun(r).file_name, None,
                        Get(ItemOfRun(r).user_metadata, "source_system"))

StableInit ==
    /\ run_items \in [Runs -> [source : {"file", "base64"}, file_name : FileNames,
                               binary : Binaries, source_system : SourceSystems]]
    /\ run_doc_id = [r \in Runs |-> None]

RunIdentity(r) ==
    /\ run_doc_id[r] = None
    /\ run_doc_id' = [run_doc_id EXCEPT ![r] = StableDocIdOfRun(r)]
    /\ UNCHANGED run_items

StableIdle ==
    /\ run_items = [r \in Runs |-> [source |-> "file", file_name |-> <<"a">>,
                                    binary |-> "B1", source_system |-> None]]
    /\ run_doc_id = [r \in Runs |-> None]

(***************************************************************************)
(* Part IV.  The content of one Item (specification SpecContent)           *)
(*                                                                         *)
(* One Item, as TikaProcessor left it, is taken through CleanProcessor     *)
(* (order 20), ChunkProcessor (30), EmbedProcessor (40) and                *)
(* AssembleProcessor (100), and summarised.  The text is one line of       *)
(* letters and single spaces with white space around it: on such text the  *)
(* encoding repair, the layout and blacklist rules, the masking and the    *)
(* de-duplication of CleanProcessor change nothing.                        *)
(***************************************************************************)
MaxTextLen == 36     \* longest text between the surrounding white space
MaxPad == 1          \* most white space on either side of the text
SmallChunkSize == 20 \* the chunk_size of a ChunkProcessor built for short chunks

MaxChunkTextLen == 5 \* longest clean_text handed to ChunkProcessor on its own
MaxChunkSize == 3    \* largest chunk_size of that ChunkProcessor

MinCleanLen == 30
DefaultChunkSize == 500
DefaultChunkOverlap == 50

VARIABLES
    raw_text,        \* data["raw_text"]
    chunk_size,      \* ChunkProcessor.chunk_size
    chunk_overlap,   \* ChunkProcessor.chunk_overlap
    embed_client,    \* EmbedProcessor.client is not None
    item_metadata,   \* data["metadata"] as TikaProcessor returned it
    clean_text,      \* data["clean_text"]
    chunks,          \* data["chunks"]
    embeddings,      \* data["embeddings"]
    solr_docs,       \* data["solr_docs"]
    vector_docs,     \* data["vector_docs"]
    content_pc,      \* the processor that runs next, or "summary", "done", "failed"
    summary_counts   \* chunk_count and embedding_count of the summary

contentVars == <<raw_text, chunk_size, chunk_overlap, embed_client, item_metadata, clean_text, chunks,
                 embeddings, solr_docs, vector_docs, content_pc, summary_counts>>

Spaces(n) == [i \in 1..n |-> " "]

(* n characters, letters with one space after the fifth, as "hello world"   *)
Words(n) == [i \in 1..n |-> IF i = 6 /\ n > 6 THEN " " ELSE "a"]

TextLens == {0, 11, MinCleanLen, MinCleanLen + 1, MaxTextLen}

RawTexts == {Spaces(l) \o Words(n) \o Spaces(r) : l \in 0..MaxPad, r \in 0..MaxPad, n \in TextLens}

(* re.sub(r'[\s...]+', ' ', line): each run of white space becomes one space *)
RECURSIVE CollapseSpaces(_)
CollapseSpaces(t) ==
    IF Len(t) < 2 THEN t
    ELSE IF t[1] = " " /\ t[2] = " " THEN CollapseSpaces(Tail(t))
    ELSE <<t[1]>> \o CollapseSpaces(Tail(t))

(* CleanProcessor.process: the white space is collapsed and trimmed; a      *)
(* result of 30 characters or fewer is replaced by the empty string.        *)
CleanText(t) ==
    LET text == Strip(CollapseSpaces(t))
    IN  IF Len(text) > MinCleanLen THEN text ELSE <<>>

(* separators=["\n\n", "\n", " ", ""] *)
SeparatorsNoEmpty == << <<"\n", "\n">>, <<"\n">>, <<" ">> >>

Separators == << <<"\n", "\n">>, <<"\n">>, <<" ">>, <<>> >>

(* re.search(re.escape(sep), text) *)
Found(sep, text) ==
    \E i \in 1..(Len(text) - Len(sep) + 1) : SubSeq(text, i, i + Len(sep) - 1) = sep

(* re.split(f"({sep})", text) with every separator put in front of the     *)
(* piece that follows it (keep_separator=True); cur is the piece being     *)
(* read                                                                     *)
RECURSIVE SplitKeeping(_, _, _)
SplitKeeping(text, sep, cur) ==
    IF text = <<>> THEN <<cur>>
    ELSE IF Len(text) >= Len(sep) /\ SubSeq(text, 1, Len(sep)) = sep
    THEN <<cur>> \o SplitKeeping(SubSeq(text, Len(sep) + 1, Len(text)), sep, sep)
    ELSE SplitKeeping(Tail(text), sep, Append(cur, Head(text)))

(* _split_text_with_regex: list(text) for the empty separator; the empty   *)
(* pieces are dropped                                                       *)
SplitWithRegex(text, sep) ==
    LET pieces == IF sep = <<>> THEN [i \in 1..Len(text) |-> <<text[i]>>]
                  ELSE SplitKeeping(text, sep, <<>>)
    IN  SelectSeq(pieces, LAMBDA piece : piece # <<>>)

RECURSIVE JoinAll(_)
JoinAll(pieces) == IF pieces = <<>> THEN <<>> ELSE Head(pieces) \o JoinAll(Tail(pieces))

RECURSIVE TotalLen(_)
TotalLen(pieces) == IF pieces = <<>> THEN 0 ELSE Len(Head(pieces)) + TotalLen(Tail(pieces))

(* _join_docs: the pieces joined and stripped; no document when nothing is *)
(* left                                                                     *)
JoinDocs(pieces) ==
    LET text == Strip(JoinAll(pieces))
    IN  IF text = <<>> THEN <<>> ELSE <<text>>

(* the while loop of _merge_splits: the oldest pieces leave current_doc    *)
(* until what stays is no longer than chunk_overlap and the next piece, of *)
(* len characters, fits                                                     *)
RECURSIVE DropOldest(_, _, _, _)
DropOldest(current_doc, len, size, overlap) ==
    LET total == TotalLen(current_doc)
    IN  IF total > overlap \/ (total + len > size /\ total > 0)
        THEN DropOldest(Tail(current_doc), len, size, overlap)
        ELSE current_doc

(* _merge_splits with the separator "" *)
RECURSIVE MergeSplits(_, _, _, _)
MergeSplits(splits, current_doc, size, overlap) ==
    IF splits = <<>> THEN JoinDocs(current_doc)
    ELSE LET d == Head(splits)
         IN  IF TotalLen(current_doc) + Len(d) > size /\ current_doc # <<>>
             THEN JoinDocs(current_doc)
                    \o MergeSplits(Tail(splits),
                                   Append(DropOldest(current_doc, Len(d), size, overlap), d),
                                   size, overlap)
             ELSE MergeSplits(Tail(splits), Append(current_doc, d), size, overlap)

(* the place in separators of the first one that is "" or occurs in the    *)
(* text, 0 when there is none                                               *)
RECURSIVE FirstSeparator(_, _, _)
FirstSeparator(text, separators, i) ==
    IF i > Len(separators) THEN 0
    ELSE IF separators[i] = <<>> \/ Found(separators[i], text) THEN i
    ELSE FirstSeparator(text, separators, i + 1)

(* _split_text: the text is cut at the first separator it holds; pieces    *)
(* shorter than chunk_size are merged, a longer piece is cut with the      *)
(* separators that follow, or kept as it is when none follows               *)
RECURSIVE SplitRecursive(_, _, _, _)
RECURSIVE SplitPieces(_, _, _, _, _)
SplitPieces(splits, good_splits, new_separators, size, overlap) ==
    IF splits = <<>> THEN MergeSplits(good_splits, <<>>, size, overlap)
    ELSE LET piece == Head(splits)
         IN  IF Len(piece) < size
             THEN SplitPieces(Tail(splits), Append(good_splits, piece), new_separators,
                              size, overlap)
             ELSE MergeSplits(good_splits, <<>>, size, overlap)
                    \o (IF new_separators = <<>> THEN <<piece>>
                        ELSE SplitRecursive(piece, new_separators, size, overlap))
                    \o SplitPieces(Tail(splits), <<>>, new_separators, size, overlap)

SplitRecursive(text, separators, size, overlap) ==
    LET i == FirstSeparator(text, separators, 1)
        separator == IF i = 0 THEN separators[Len(separators)] ELSE separators[i]
        new_separators == IF i = 0 \/ separators[i] = <<>> THEN <<>>
                          ELSE SubSeq(separators, i + 1, Len(separators))
    IN  SplitPieces(SplitWithRegex(text, separator), <<>>, new_separators, size, overlap)

(* splitter.split_text(text) *)
SplitText(text, size, overlap) == SplitRecursive(text, Separators, size, overlap)

ContentInit ==
    /\ raw_text \in RawTexts
    /\ chunk_size \in {SmallChunkSize, DefaultChunkSize}
    /\ chunk_overlap \in IF chunk_size = DefaultChunkSize THEN {DefaultChunkOverlap} ELSE {0, 1}
    /\ embed_client \in BOOLEAN
    /\ \E keys \in SUBSET {"chunk_count", "id", "title"} : \E n \in {0, 7} :
          item_metadata = [k \in {"doc_id"} \cup keys |->
                              CASE k = "doc_id" -> <<"d">>
                                [] k = "chunk_count" -> n
                                [] k = "id" -> <<"caller", "id">>
                                [] OTHER -> <<"t">>]
    /\ clean_text = <<>>
    /\ chunks = <<>>
    /\ embeddings = <<>>
    /\ solr_docs = <<>>
    /\ vector_docs = <<>>
    /\ content_pc = "CleanProcessor"
    /\ summary_counts = [chunk_count |-> 0, embedding_count |-> 0]

(* CleanProcessor.process *)
CleanProcess ==
    /\ content_pc = "CleanProcessor"
    /\ clean_text' = CleanText(raw_text)
    /\ content_pc' = "ChunkProcessor"
    /\ UNCHANGED <<raw_text, chunk_size, chunk_overlap, embed_client, item_metadata, chunks, embeddings,
                   solr_docs, vector_docs, summary_counts>>

(* ChunkProcessor.process *)
ChunkProcess ==
    /\ content_pc = "ChunkProcessor"
    /\ IF clean_text = <<>> THEN chunks' = <<>>
       ELSE chunks' = SplitText(clean_text, chunk_size, chunk_overlap)
    /\ content_pc' = "EmbedProcessor"
    /\ UNCHANGED <<raw_text, chunk_size, chunk_overlap, embed_client, item_metadata, clean_text, embeddings,
                   solr_docs, vector_docs, summary_counts>>

(* the embeddings list EmbedProcessor returns *)
EmbedShifted(cs, client) ==
    IF cs = <<>> \/ ~client THEN <<>>
    ELSE [i \in 1..Len(cs) |-> [text |-> cs[Len(cs) + 1 - i], embedding |-> <<"vec", ToString(i)>>]]

Embed(cs, client) ==
    IF cs = <<>> \/ ~client THEN <<>>
    ELSE [i \in 1..Len(cs) |-> [text |-> cs[i], embedding |-> <<"vec", ToString(i)>>]]

(* EmbedProcessor.process, every client.embed call answers *)
EmbedProcess ==
    /\ content_pc = "EmbedProcessor"
    /\ embeddings' = Embed(chunks, embed_client)
    /\ content_pc' = "AssembleProcessor"
    /\ UNCHANGED <<raw_text, chunk_size, chunk_overlap, embed_client, item_metadata, clean_text, chunks,
                   solr_docs, vector_docs, summary_counts>>

(* EmbedProcessor.process, client.embed raises: run_single fails the Item *)
EmbedRaises ==
    /\ content_pc = "EmbedProcessor"
    /\ chunks # <<>> /\ embed_client
    /\ content_pc' = "failed"
    /\ UNCHANGED <<raw_text, chunk_size, chunk_overlap, embed_client, item_metadata, clean_text, chunks,
                   embeddings, solr_docs, vector_docs, summary_counts>>

(* generate_professional_uuid_id: uuid5 of the seed and the doc_id *)
Uuid5(id) == <<"uuid5">> \o id

(* f"{doc_id}_chunk_{idx:06d}", idx counted from 0 *)
ChunkDocId(id, n) == id \o <<"_chunk_", ToString(n)>>

ExcludedFromParent == {"title", "author", "filename", "filetype"}

(* main_doc: the fields AssembleProcessor sets, then every key of metadata  *)
(* not excluded, which replaces a field of the same name                   *)
MainDoc(meta, embs) ==
    LET id == Or(Get(meta, "doc_id"), Uuid4)
    IN  Update([k \in {"id", "doc_id", "doc_type", "title", "chunk_count"} |->
                   CASE k = "id" -> Uuid5(id)
                     [] k = "doc_id" -> id
                     [] k = "doc_type" -> Lit("document")
                     [] k = "title" -> IF "title" \in DOMAIN meta THEN meta["title"] ELSE <<>>
                     [] OTHER -> Len(embs)],
               [k \in DOMAIN meta \ ExcludedFromParent |-> meta[k]])

Min(a, b) == IF a <= b THEN a ELSE b

(* chunk_docs: one record for each pair of zip(chunks, embeddings) *)
ChunkDocs(meta, cs, embs) ==
    LET id == Or(Get(meta, "doc_id"), Uuid4)
    IN  [n \in 1..Min(Len(cs), Len(embs)) |->
            [id |-> Uuid5(ChunkDocId(id, n - 1)),
             doc_id |-> ChunkDocId(id, n - 1),
             doc_type |-> Lit("chunk"),
             parent_id |-> MainDoc(meta, embs)["id"],
             chunk_index |-> n - 1,
             chunk_content |-> cs[n],
             gl_vector |-> embs[n].embedding,
             title |-> MainDoc(meta, embs)["title"]]]

(* AssembleProcessor.process: solr_docs is the parent followed by the chunk *)
(* records, vector_docs the chunk records.                                  *)
AssembleDocs ==
    /\ content_pc = "AssembleProcessor"
    /\ solr_docs' = <<MainDoc(item_metadata, embeddings)>>
                        \o ChunkDocs(item_metadata, chunks, embeddings)
    /\ vector_docs' = ChunkDocs(item_metadata, chunks, embeddings)
    /\ content_pc' = "summary"
    /\ UNCHANGED <<raw_text, chunk_size, chunk_overlap, embed_client, item_metadata, clean_text, chunks,
                   embeddings, summary_counts>>

(* _build_summary: chunk_count and embedding_count *)
BuildSummaryCounts(cs, embs) == [chunk_count |-> Len(cs), embedding_count |-> Len(embs)]

(* return self._build_summary(data) *)
ContentSummarise ==
    /\ content_pc = "summary"
    /\ summary_counts' = BuildSummaryCounts(chunks, embeddings)
    /\ content_pc' = "done"
    /\ UNCHANGED <<raw_text, chunk_size, chunk_overlap, embed_client, item_metadata, clean_text, chunks,
                   embeddings, solr_docs, vector_docs>>

(* ChunkProcessor.process on its own, handed any short clean_text, with a  *)
(* chunk_overlap the splitter accepts (no larger than chunk_size)           *)
ChunkChars == {"a", " ", "\n"}

ChunkTexts == UNION {[1..n -> ChunkChars] : n \in 0..MaxChunkTextLen}

ChunkInit ==
    /\ clean_text \in ChunkTexts
    /\ raw_text = clean_text
    /\ chunk_size \in 1..MaxChunkSize
    /\ chunk_overlap \in 0..chunk_size
    /\ embed_client = FALSE
    /\ item_metadata = <<>>
    /\ chunks = <<>>
    /\ embeddings = <<>>
    /\ solr_docs = <<>>
    /\ vector_docs = <<>>
    /\ content_pc = "ChunkProcessor"
    /\ summary_counts = [chunk_count |-> 0, embedding_count |-> 0]

ContentIdle ==
    /\ raw_text = <<>>
    /\ chunk_size = DefaultChunkSize
    /\ chunk_overlap = DefaultChunkOverlap
    /\ embed_client = FALSE
    /\ item_metadata = <<>>
    /\ clean_text = <<>>
    /\ chunks = <<>>
    /\ embeddings = <<>>
    /\ solr_docs = <<>>
    /\ vector_docs = <<>>
    /\ content_pc = "idle"
    /\ summary_counts = [chunk_count |-> 0, embedding_count |-> 0]

(***************************************************************************)
(* Part V.  WebCrawlerSource (specification SpecCrawl)                     *)
(*                                                                         *)
(* A URL is a host, the sequence of its labels, and a path, a sequence of  *)
(* characters.  The workers are asyncio tasks of one event loop: a step of *)
(* a worker is the code between two awaits that can suspend it.            *)
(***************************************************************************)
MaxDepth == 2        \* largest max_depth
MaxConcurrency == 2  \* largest concurrency

VARIABLES
    start_url,        \* the start_url argument, as the caller wrote it
    max_depth,        \* self.max_depth
    concurrency,      \* self.concurrency
    allow_subdomains, \* self.allow_subdomains
    restrict_to_path, \* self.restrict_to_path
    site,             \* which link graph the web serves
    robots_disallow,  \* the URLs robots.txt disallows
    queue,            \* the asyncio.Queue of (url, depth)
    unfinished,       \* its count of unfinished tasks, which join() waits on
    visited_urls,     \* self.visited_urls
    seen_urls,        \* self.seen_urls
    results,          \* self.results, the source_path of each Item
    worker,           \* per worker: where it is, and the (url, depth) it holds
    sem_free,         \* free permits of the semaphore
    fetched,          \* the URLs session.get was called with, in order
    outcomes,         \* how each of these fetches ended: "ok", "skip" or "links_error"
    crawl_pc          \* _crawl_async: "join", "cancel", "gathered"; read(): "returned"

crawlVars == <<start_url, max_depth, concurrency, allow_subdomains, restrict_to_path, site,
               robots_disallow, queue, unfinished, visited_urls, seen_urls, results, worker,
               sem_free, fetched, outcomes, crawl_pc>>

Workers == 1..MaxConcurrency

Url(h, p) == [host |-> h, path |-> p]

HostA == <<"a", "example", "com">>
HostB == <<"b", "example", "com">>
HostAds == <<"ads", "example", "com">>
HostEvil == <<"evil", "com">>

PathDocs == <<"/", "d", "/">>
PathDocsSub == <<"/", "d", "/", "s", "/">>
PathDocsSubX == <<"/", "d", "/", "s", "/", "x">>
PathDocsX == <<"/", "d", "/", "x">>
PathBlogX == <<"/", "b", "/", "x">>
PathBlog == <<"/", "b", "/">>

(* what start_url may be *)
StartUrls == {Url(HostA, PathDocs), Url(HostA, PathDocsSub), Url(HostA, PathDocsSubX)}

(* the absolute URLs the pages link to, in the order of the page *)
AllLinks ==
    <<Url(HostA, PathDocs), Url(HostA, PathDocsSubX), Url(HostA, PathDocsX),
      Url(HostA, PathBlogX), Url(HostB, PathDocsX), Url(HostAds, PathDocsX),
      Url(HostEvil, PathDocsX)>>

RECURSIVE RStripSlash(_)
RStripSlash(t) ==
    IF t # <<>> /\ t[Len(t)] = "/" THEN RStripSlash(SubSeq(t, 1, Len(t) - 1)) ELSE t

(* _normalize_url: the trailing slashes are taken off *)
NormalizeUrl(u) == Url(u.host, RStripSlash(u.path))

(* the links of the pages of a site where one page is linked from the    *)
(* start over two paths of different lengths                               *)
DeepLinks(u) ==
    CASE u = Url(HostA, <<"/", "d">>) -> <<Url(HostA, PathDocsX), Url(HostA, PathDocsSub)>>
      [] u = Url(HostA, <<"/", "d", "/", "s">>) -> <<Url(HostA, PathDocsSubX)>>
      [] u = Url(HostA, PathDocsSubX) -> <<Url(HostA, PathBlogX)>>
      [] u = Url(HostA, PathDocsX) -> <<Url(HostA, PathBlogX), Url(HostAds, PathDocsX)>>
      [] u = Url(HostA, PathBlogX) ->
            <<Url(HostA, PathBlog), Url(HostB, PathDocsX), Url(HostEvil, PathDocsX),
              Url(HostA, PathDocs)>>
      [] OTHER -> <<>>

(* the links of a page *)
LinksOf(g, u) ==
    CASE g = "none" -> <<>>
      [] g = "back" -> <<start_url>>
      [] g = "deep" -> DeepLinks(u)
      [] OTHER -> AllLinks

Sites == {"none", "back", "all"}

(* _is_ad_link: one of the patterns ("ads.") occurs in the URL *)
IsAdLink(u) == u.host[1] = "ads"

(* _is_disallowed_by_robots *)
IsDisallowedByRobots(u) == u \in robots_disallow

(* _get_base_domain: the last two labels *)
GetBaseDomain(netloc) ==
    IF Len(netloc) >= 2 THEN SubSeq(netloc, Len(netloc) - 1, Len(netloc)) ELSE netloc

(* netloc.endswith("." + base) *)
EndsWithDot(netloc, base) ==
    /\ Len(netloc) > Len(base)
    /\ SubSeq(netloc, Len(netloc) - Len(base) + 1, Len(netloc)) = base

(* the index after the last "/" of p, 0 if there is none *)
RECURSIVE RFindSlash(_)
RFindSlash(t) ==
    IF t = <<>> THEN 0
    ELSE IF t[Len(t)] = "/" THEN Len(t)
    ELSE RFindSlash(SubSeq(t, 1, Len(t) - 1))

AllSlashes(t) == \A i \in 1..Len(t) : t[i] = "/"

(* os.path.dirname *)
DirName(t) ==
    LET head == SubSeq(t, 1, RFindSlash(t))
    IN  IF head # <<>> /\ ~AllSlashes(head) THEN RStripSlash(head) ELSE head

(* self.start_url = start_url.rstrip("/") *)
SelfStartUrl == NormalizeUrl(start_url)

(* self.start_path_prefix *)
StartPathPrefix ==
    IF SelfStartUrl.path # <<>> /\ SelfStartUrl.path[Len(SelfStartUrl.path)] = "/"
    THEN SelfStartUrl.path
    ELSE DirName(SelfStartUrl.path) \o <<"/">>

(* path.startswith(prefix) *)
StartsWith(t, prefix) ==
    Len(prefix) <= Len(t) /\ SubSeq(t, 1, Len(prefix)) = prefix

(* _is_url_in_scope *)
IsUrlInScope(u) ==
    LET path == IF u.path = <<>> THEN <<"/">> ELSE u.path
    IN  /\ \/ u.host = SelfStartUrl.host
           \/ allow_subdomains /\ EndsWithDot(u.host, GetBaseDomain(SelfStartUrl.host))
        /\ restrict_to_path => StartsWith(path, StartPathPrefix)

CrawlInit ==
    /\ start_url \in StartUrls
    /\ max_depth \in 0..MaxDepth
    /\ concurrency \in 1..MaxConcurrency
    /\ allow_subdomains \in BOOLEAN
    /\ restrict_to_path \in BOOLEAN
    /\ site \in Sites
    /\ robots_disallow \in {{}, {Url(HostA, PathDocsX)}}
    /\ queue = <<[url |-> NormalizeUrl(SelfStartUrl), depth |-> 0]>>
    /\ unfinished = 1
    /\ visited_urls = {}
    /\ seen_urls = {}
    /\ results = <<>>
    /\ worker = [w \in Workers |->
                    [pc |-> IF w <= concurrency THEN "get" ELSE "none",
                     url |-> SelfStartUrl, depth |-> 0]]
    /\ sem_free = concurrency
    /\ fetched = <<>>
    /\ outcomes = <<>>
    /\ crawl_pc = "join"

(* the worker checks of a dequeued URL that end without a fetch *)
Skipped(u) == IsDisallowedByRobots(u) \/ IsAdLink(u) \/ ~IsUrlInScope(u)

WorkerGetNoVisitedCheck(w) ==
    /\ crawl_pc = "join"
    /\ worker[w].pc = "get"
    /\ queue # <<>>
    /\ LET item == Head(queue)
       IN  /\ queue' = Tail(queue)
           /\ visited_urls' = visited_urls \cup {item.url}
           /\ IF Skipped(item.url)
              THEN /\ unfinished' = unfinished - 1
                   /\ UNCHANGED worker
              ELSE /\ worker' = [worker EXCEPT ![w] = [pc |-> "sem", url |-> item.url,
                                                       depth |-> item.depth]]
                   /\ UNCHANGED unfinished
    /\ UNCHANGED <<start_url, max_depth, concurrency, allow_subdomains, restrict_to_path, site,
                   robots_disallow, seen_urls, results, sem_free, fetched, outcomes, crawl_pc>>

WorkerGetNoTaskDone(w) ==
    /\ crawl_pc = "join"
    /\ worker[w].pc = "get"
    /\ queue # <<>>
    /\ LET item == Head(queue)
       IN  /\ queue' = Tail(queue)
           /\ IF item.url \in visited_urls
              THEN UNCHANGED <<visited_urls, worker>>
              ELSE /\ visited_urls' = visited_urls \cup {item.url}
                   /\ IF Skipped(item.url)
                      THEN UNCHANGED worker
                      ELSE worker' = [worker EXCEPT ![w] = [pc |-> "sem", url |-> item.url,
                                                            depth |-> item.depth]]
    /\ UNCHANGED <<start_url, max_depth, concurrency, allow_subdomains, restrict_to_path, site,
                   robots_disallow, seen_urls, results, sem_free, fetched, outcomes, crawl_pc, unfinished>>

(* _worker, from the return of queue.get() to the semaphore: nothing in     *)
(* between suspends the task.  A URL already visited, disallowed, an ad     *)
(* link or out of scope ends in task_done() without a fetch.                *)
WorkerGet(w) ==
    /\ crawl_pc = "join"
    /\ worker[w].pc = "get"
    /\ queue # <<>>
    /\ LET item == Head(queue)
       IN  /\ queue' = Tail(queue)
           /\ IF item.url \in visited_urls
              THEN /\ unfinished' = unfinished - 1
                   /\ UNCHANGED <<visited_urls, worker>>
              ELSE /\ visited_urls' = visited_urls \cup {item.url}
                   /\ IF Skipped(item.url)
                      THEN /\ unfinished' = unfinished - 1
                           /\ UNCHANGED worker
                      ELSE /\ worker' = [worker EXCEPT ![w] = [pc |-> "sem", url |-> item.url,
                                                               depth |-> item.depth]]
                           /\ UNCHANGED unfinished
    /\ UNCHANGED <<start_url, max_depth, concurrency, allow_subdomains, restrict_to_path, site,
                   robots_disallow, seen_urls, results, sem_free, fetched, outcomes, crawl_pc>>

(* async with sem *)
AcquireSem(w) ==
    /\ worker[w].pc = "sem"
    /\ sem_free > 0
    /\ sem_free' = sem_free - 1
    /\ worker' = [worker EXCEPT ![w].pc = "fetch"]
    /\ UNCHANGED <<start_url, max_depth, concurrency, allow_subdomains, restrict_to_path, site,
                   robots_disallow, queue, unfinished, visited_urls, seen_urls, results,
                   fetched, outcomes, crawl_pc>>

RECURSIVE EnqueueLinksSeenOrNot(_, _, _, _)
EnqueueLinksSeenOrNot(ls, seen, q, d) ==
    IF ls = <<>> THEN [seen |-> seen, queue |-> q]
    ELSE LET abs_url == NormalizeUrl(Head(ls))
         IN  IF IsAdLink(abs_url) \/ ~IsUrlInScope(abs_url)
             THEN EnqueueLinksSeenOrNot(Tail(ls), seen, q, d)
             ELSE EnqueueLinksSeenOrNot(Tail(ls), seen \cup {abs_url},
                                        Append(q, [url |-> abs_url, depth |-> d + 1]), d)

(* the link loop of _fetch_and_process over the links ls of a page: a link  *)
(* not seen, not an ad and in scope is added to seen_urls and put on the    *)
(* queue one level deeper.                                                  *)
RECURSIVE EnqueueLinks(_, _, _, _)
EnqueueLinks(ls, seen, q, d) ==
    IF ls = <<>> THEN [seen |-> seen, queue |-> q]
    ELSE LET abs_url == NormalizeUrl(Head(ls))
         IN  IF abs_url \in seen \/ IsAdLink(abs_url) \/ ~IsUrlInScope(abs_url)
             THEN EnqueueLinks(Tail(ls), seen, q, d)
             ELSE EnqueueLinks(Tail(ls), seen \cup {abs_url},
                               Append(q, [url |-> abs_url, depth |-> d + 1]), d)

(* how session.get and the processing of its answer can end: a page        *)
(* ("html"), a file ("binary"), nothing usable ("skip": not 200, another   *)
(* content type, or an exception of the request or of both parsers), or a  *)
(* page whose first href makes urljoin raise ("links_error")               *)
FetchKinds == {"html", "binary", "skip", "links_error"}

(* what the log shows of a fetch *)
OutcomeOf(kind) == IF kind \in {"html", "binary"} THEN "ok" ELSE kind

AppendsItemAlways(kind) == TRUE

(* self.results.append(...) is reached: the Item of a page is appended      *)
(* before its links are read                                                *)
AppendsItem(kind) == kind # "skip"

FetchLinksAtMaxDepth(w, kind) ==
    /\ worker[w].pc = "fetch"
    /\ LET url == worker[w].url
           depth == worker[w].depth
           put == IF kind = "html" /\ depth <= max_depth
                  THEN EnqueueLinks(LinksOf(site, url), seen_urls, queue, depth)
                  ELSE [seen |-> seen_urls, queue |-> queue]
       IN  /\ fetched' = Append(fetched, url)
           /\ outcomes' = Append(outcomes, OutcomeOf(kind))
           /\ results' = IF AppendsItem(kind) THEN Append(results, url) ELSE results
           /\ seen_urls' = put.seen
           /\ queue' = put.queue
           /\ unfinished' = unfinished + (Len(put.queue) - Len(queue)) - 1
    /\ sem_free' = sem_free + 1
    /\ worker' = [worker EXCEPT ![w] = [pc |-> "get", url |-> SelfStartUrl, depth |-> 0]]
    /\ UNCHANGED <<start_url, max_depth, concurrency, allow_subdomains, restrict_to_path, site,
                   robots_disallow, visited_urls, crawl_pc>>

(* _fetch_and_process and the end of the worker's turn: session.get answers *)
(* with a page ("html"), a file ("binary") or nothing usable ("skip": not   *)
(* 200, another content type, or an exception), or the link loop of a page  *)
(* raises at its first href ("links_error"); every exception is caught and  *)
(* logged.  Then the semaphore is released and task_done() called; the      *)
(* worker's url and depth are locals of the loop body, rebound by the next  *)
(* queue.get().                                                             *)
Fetch(w, kind) ==
    /\ worker[w].pc = "fetch"
    /\ LET url == worker[w].url
           depth == worker[w].depth
           put == IF kind = "html" /\ depth < max_depth
                  THEN EnqueueLinks(LinksOf(site, url), seen_urls, queue, depth)
                  ELSE [seen |-> seen_urls, queue |-> queue]
       IN  /\ fetched' = Append(fetched, url)
           /\ outcomes' = Append(outcomes, OutcomeOf(kind))
           /\ results' = IF AppendsItem(kind) THEN Append(results, url) ELSE results
           /\ seen_urls' = put.seen
           /\ queue' = put.queue
           /\ unfinished' = unfinished + (Len(put.queue) - Len(queue)) - 1
    /\ sem_free' = sem_free + 1
    /\ worker' = [worker EXCEPT ![w] = [pc |-> "get", url |-> SelfStartUrl, depth |-> 0]]
    /\ UNCHANGED <<start_url, max_depth, concurrency, allow_subdomains, restrict_to_path, site,
                   robots_disallow, visited_urls, crawl_pc>>

(* await queue.join() returns: every put has had its task_done() *)
JoinReturns ==
    /\ crawl_pc = "join"
    /\ unfinished = 0
    /\ crawl_pc' = "cancel"
    /\ UNCHANGED <<start_url, max_depth, concurrency, allow_subdomains, restrict_to_path, site,
                   robots_disallow, queue, unfinished, visited_urls, seen_urls, results,
                   worker, sem_free, fetched, outcomes>>

(* for w in workers: w.cancel(), then asyncio.gather over them: every       *)
(* worker is waiting in queue.get(), where CancelledError is raised and     *)
(* the worker returns.                                                      *)
CancelWorkers ==
    /\ crawl_pc = "cancel"
    /\ \A w \in Workers : worker[w].pc \in {"get", "none"}
    /\ worker' = [w \in Workers |->
                     IF worker[w].pc = "get" THEN [worker[w] EXCEPT !.pc = "cancelled"]
                     ELSE worker[w]]
    /\ crawl_pc' = "gathered"
    /\ UNCHANGED <<start_url, max_depth, concurrency, allow_subdomains, restrict_to_path, site,
                   robots_disallow, queue, unfinished, visited_urls, seen_urls, results,
                   sem_free, fetched, outcomes>>

(* _crawl_async ends and read() returns self.results *)
ReadReturns ==
    /\ crawl_pc = "gathered"
    /\ crawl_pc' = "returned"
    /\ UNCHANGED <<start_url, max_depth, concurrency, allow_subdomains, restrict_to_path, site,
                   robots_disallow, queue, unfinished, visited_urls, seen_urls, results,
                   worker, sem_free, fetched, outcomes>>

(* what session.get answers for a URL when the site answers the same way   *)
(* every time: a file for one URL, nothing usable for another, a page for  *)
(* the rest                                                                *)
PageKind(u) ==
    CASE u = Url(HostA, <<"/", "b">>) -> "binary"
      [] u = Url(HostB, PathDocsX) -> "skip"
      [] OTHER -> "html"

(* _fetch_and_process against such a site *)
FetchPage(w) == Fetch(w, PageKind(worker[w].url))

(* the sites that answer the same way every time *)
FixedSites == {"deep", "all"}

(* a crawl of such a site from its front page, without the path rule *)
CrawlSiteInit ==
    /\ start_url = Url(HostA, PathDocs)
    /\ max_depth \in 0..(MaxDepth + 1)
    /\ concurrency \in 1..MaxConcurrency
    /\ allow_subdomains \in BOOLEAN
    /\ restrict_to_path = FALSE
    /\ site \in FixedSites
    /\ robots_disallow \in {{}, {Url(HostA, PathDocsSubX)}}
    /\ queue = <<[url |-> NormalizeUrl(SelfStartUrl), depth |-> 0]>>
    /\ unfinished = 1
    /\ visited_urls = {}
    /\ seen_urls = {}
    /\ results = <<>>
    /\ worker = [w \in Workers |->
                    [pc |-> IF w <= concurrency THEN "get" ELSE "none",
                     url |-> SelfStartUrl, depth |-> 0]]
    /\ sem_free = concurrency
    /\ fetched = <<>>
    /\ outcomes = <<>>
    /\ crawl_pc = "join"

CrawlIdle ==
    /\ start_url = Url(HostA, PathDocs)
    /\ max_depth = 0
    /\ concurrency = 1
    /\ allow_subdomains = FALSE
    /\ restrict_to_path = FALSE
    /\ site = "none"
    /\ robots_disallow = {}
    /\ queue = <<>>
    /\ unfinished = 0
    /\ visited_urls = {}
    /\ seen_urls = {}
    /\ results = <<>>
    /\ worker = [w \in Workers |-> [pc |-> "none", url |-> Url(HostA, PathDocs), depth |-> 0]]
    /\ sem_free = 0
    /\ fetched = <<>>
    /\ outcomes = <<>>
    /\ crawl_pc = "idle"

(***************************************************************************)
(* Part VI.  EmailSource (specification SpecEmail)                         *)
(*                                                                         *)
(* A mailbox is the set of the UIDs of its messages.  A run is the         *)
(* construction of an EmailSource and one call of read(); PipelineRunner   *)
(* then takes the Items through the pipeline.  The fetch tasks are asyncio *)
(* tasks of one event loop.  A session that is open answers LOGOUT; on a   *)
(* session that was never opened, or is closed already, logout() may raise.*)
(***************************************************************************)
MaxUids == 3         \* most messages in the mailbox when the first run starts
MaxEmails == 2       \* largest max_emails below the default

DefaultMaxEmails == 50

FirstUid == 10

VARIABLES
    mailbox,           \* the UIDs of the messages the server holds
    state_file,        \* the file at self.state_file: whether it is there, and its UIDs
    max_emails,        \* self.max_emails
    reset_state,       \* the reset_state argument of this run
    email_concurrency, \* self.concurrency
    seen_uids,         \* self.seen_uids
    new_uids,          \* new_uids, once cut to max_emails
    task,              \* per UID: where its fetch_email task is
    email_sem_free,    \* free permits of the semaphore
    email_results,     \* results of _async_read
    session,           \* the IMAP session: "none", "open", "auth", "selected", "closed"
    email_exc,         \* an exception is on its way out of _async_read
    email_ret,         \* what read() returned
    ingest_failed,     \* the UIDs with an Item that failed in a processor or a sink
    prev_run,          \* what the run before this one did
    file_before,       \* the state file when this run began
    uid_list,          \* uid_list, sorted
    failed_at,         \* the step of _async_read that failed: "none", "hello", "login", ...
    saved,             \* the write of the state file in this run: "none", "written", "failed"
    email_run,         \* which run this is: "first", or "second" for the run after it
    email_pc           \* where the run is

emailVars == <<mailbox, state_file, max_emails, reset_state, email_concurrency, seen_uids,
               new_uids, task, email_sem_free, email_results, session, email_exc, email_ret,
               ingest_failed, prev_run, file_before, uid_list, failed_at, saved, email_run, email_pc>>

Uids == FirstUid..(FirstUid + MaxUids)

Concurrencies == 1..MaxConcurrency

(* sorted(list(set(uid_list)), key=int) *)
RECURSIVE SortedUids(_)
SortedUids(S) ==
    IF S = {} THEN <<>>
    ELSE LET m == CHOOSE x \in S : \A y \in S : x <= y
         IN  <<m>> \o SortedUids(S \ {m})

(* [uid for uid in uid_list if uid not in self.seen_uids] *)
RECURSIVE NotSeen(_, _)
NotSeen(us, seen) ==
    IF us = <<>> THEN <<>>
    ELSE IF Head(us) \in seen THEN NotSeen(Tail(us), seen)
         ELSE <<Head(us)>> \o NotSeen(Tail(us), seen)

(* new_uids[-self.max_emails:] *)
LastN(us, n) ==
    IF n = 0 \/ n >= Len(us) THEN us ELSE SubSeq(us, Len(us) - n + 1, Len(us))

(* the message of a UID: the length of its extracted text, and whether it  *)
(* carries an attachment                                                    *)
ContentScore(u) == u % 3

HasAttachment(u) == u = FirstUid + 1

(* items of fetch_email: the body Item and one Item for the attachment *)
EmailItems(u) ==
    <<[uid |-> u, source_type |-> "email", has_score |-> TRUE,
       content_score |-> ContentScore(u)]>>
    \o (IF HasAttachment(u)
        THEN <<[uid |-> u, source_type |-> "email_attachment", has_score |-> FALSE,
                content_score |-> 0]>>
        ELSE <<>>)

(* x.get("user_metadata", {}).get("content_score", 0) *)
SortKey(x) == IF x.has_score THEN x.content_score ELSE 0

RECURSIVE InsertByScore(_, _)
InsertByScore(sorted, x) ==
    IF sorted = <<>> THEN <<x>>
    ELSE IF SortKey(sorted[Len(sorted)]) >= SortKey(x) THEN Append(sorted, x)
         ELSE Append(InsertByScore(SubSeq(sorted, 1, Len(sorted) - 1), x),
                     sorted[Len(sorted)])

(* results.sort(key=content_score, reverse=True): stable *)
RECURSIVE SortByScore(_)
SortByScore(s) ==
    IF s = <<>> THEN <<>>
    ELSE InsertByScore(SortByScore(SubSeq(s, 1, Len(s) - 1)), s[Len(s)])

(* asyncio.gather keeps the order of new_uids; results.extend(batch) *)
RECURSIVE AllResults(_, _)
AllResults(us, t) ==
    IF us = <<>> THEN <<>>
    ELSE (IF t[Head(us)] = "ok" THEN EmailItems(Head(us)) ELSE <<>>)
         \o AllResults(Tail(us), t)

NoFile == [exists |-> FALSE, uids |-> {}]

File(S) == [exists |-> TRUE, uids |-> S]

LoadSeenUidsFresh(reset, file) == {}

(* __init__: the seen set of a new EmailSource *)
LoadSeenUids(reset, file) == IF reset \/ ~file.exists THEN {} ELSE file.uids

NoTasks == [u \in Uids |-> "none"]

(* the UIDs FETCH (UID) answers for: all of the mailbox, or all but the    *)
(* message with the first sequence number                                  *)
Listings == {mailbox} \cup {mailbox \ {u} : u \in {v \in mailbox : \A w \in mailbox : v <= w}}

SeqToSet(s) == {s[i] : i \in 1..Len(s)}

(* what the run did, kept for the properties *)
NoRun == [ran |-> FALSE, mailbox |-> {}, fetches_ok |-> FALSE, complete |-> FALSE]

(* the UIDs whose fetch_email returned Items in this run *)
Fetched == {u \in Uids : task[u] = "ok"}

(* self.seen_uids when this run began *)
SeenBefore == LoadSeenUids(reset_state, file_before)

(* every fetch of the run succeeded *)
FetchesOk == saved # "none" /\ \A u \in Uids : task[u] \in {"none", "ok"}

RunRecord ==
    [ran |-> TRUE, mailbox |-> mailbox, fetches_ok |-> FetchesOk,
     complete |-> FetchesOk /\ saved = "written" /\ mailbox \subseteq seen_uids]

EmailInit ==
    /\ mailbox \in SUBSET (FirstUid..(FirstUid + MaxUids - 1))
    /\ state_file \in {NoFile, File({}), File({FirstUid})}
    /\ max_emails \in (0..MaxEmails) \cup {DefaultMaxEmails}
    /\ reset_state \in BOOLEAN
    /\ email_concurrency \in Concurrencies
    /\ seen_uids = LoadSeenUids(reset_state, state_file)
    /\ new_uids = <<>>
    /\ task = NoTasks
    /\ email_sem_free = email_concurrency
    /\ email_results = <<>>
    /\ session = "none"
    /\ email_exc = FALSE
    /\ email_ret = <<>>
    /\ ingest_failed = {}
    /\ prev_run = NoRun
    /\ file_before = state_file
    /\ uid_list = <<>>
    /\ failed_at = "none"
    /\ saved = "none"
    /\ email_run = "first"
    /\ email_pc = "hello"

(* await client.wait_hello_from_server(): the greeting, or an exception *)
WaitHello(ok) ==
    /\ email_pc = "hello"
    /\ session' = IF ok THEN "open" ELSE session
    /\ email_exc' = ~ok
    /\ failed_at' = IF ok THEN "none" ELSE "hello"
    /\ email_pc' = IF ok THEN "login" ELSE "finally"
    /\ UNCHANGED <<mailbox, state_file, max_emails, reset_state, email_concurrency, seen_uids,
                   new_uids, task, email_sem_free, email_results, email_ret, ingest_failed,
                   prev_run, file_before, uid_list, saved, email_run>>

(* client.login and client.select: "OK", another result (return results),  *)
(* or an exception                                                          *)
Login(outcome) ==
    /\ email_pc = "login"
    /\ session' = IF outcome = "OK" THEN "auth" ELSE session
    /\ email_exc' = (outcome = "raises")
    /\ failed_at' = IF outcome = "OK" THEN "none" ELSE "login"
    /\ email_pc' = IF outcome = "OK" THEN "select" ELSE "finally"
    /\ UNCHANGED <<mailbox, state_file, max_emails, reset_state, email_concurrency, seen_uids,
                   new_uids, task, email_sem_free, email_results, email_ret,
                   ingest_failed, prev_run, file_before, uid_list, saved, email_run>>

SelectIgnoringResult(outcome) ==
    /\ email_pc = "select"
    /\ session' = IF outcome = "OK" THEN "selected" ELSE session
    /\ email_exc' = (outcome = "raises")
    /\ failed_at' = IF outcome = "OK" THEN "none" ELSE "select"
    /\ email_pc' = IF outcome = "raises" THEN "finally" ELSE "search"
    /\ UNCHANGED <<mailbox, state_file, max_emails, reset_state, email_concurrency, seen_uids,
                   new_uids, task, email_sem_free, email_results, email_ret,
                   ingest_failed, prev_run, file_before, uid_list, saved, email_run>>

Select(outcome) ==
    /\ email_pc = "select"
    /\ session' = IF outcome = "OK" THEN "selected" ELSE session
    /\ email_exc' = (outcome = "raises")
    /\ failed_at' = IF outcome = "OK" THEN "none" ELSE "select"
    /\ email_pc' = IF outcome = "OK" THEN "search" ELSE "finally"
    /\ UNCHANGED <<mailbox, state_file, max_emails, reset_state, email_concurrency, seen_uids,
                   new_uids, task, email_sem_free, email_results, email_ret,
                   ingest_failed, prev_run, file_before, uid_list, saved, email_run>>

(* SEARCH ALL fails *)
SearchFails(outcome) ==
    /\ email_pc = "search"
    /\ outcome # "OK"
    /\ email_exc' = (outcome = "raises")
    /\ failed_at' = "search"
    /\ email_pc' = "finally"
    /\ UNCHANGED <<mailbox, state_file, max_emails, reset_state, email_concurrency, seen_uids,
                   new_uids, task, email_sem_free, email_results, session, email_ret,
                   ingest_failed, prev_run, file_before, uid_list, saved, email_run>>

(* SEARCH ALL, FETCH (UID) of every sequence number (listed: the UIDs whose *)
(* FETCH answered OK), the sort, the seen filter and the cut to max_emails. *)
(* With no sequence number, results is returned; with no new UID the        *)
(* session is logged out and results returned; otherwise one fetch_email    *)
(* task is made for each new UID.                                           *)
Search(listed) ==
    /\ email_pc = "search"
    /\ listed \subseteq mailbox
    /\ uid_list' = SortedUids(listed)
    /\ LET unseen == NotSeen(uid_list', seen_uids)
           cut == LastN(unseen, max_emails)
       IN  IF mailbox = {}
           THEN /\ email_pc' = "finally"
                /\ UNCHANGED <<new_uids, task, session>>
           ELSE IF unseen = <<>>
           THEN /\ session' = "closed"
                /\ email_pc' = "finally"
                /\ UNCHANGED <<new_uids, task>>
           ELSE /\ new_uids' = cut
                /\ task' = [u \in Uids |-> IF u \in SeqToSet(cut) THEN "wait" ELSE "none"]
                /\ email_pc' = "gather"
                /\ UNCHANGED session
    /\ UNCHANGED <<mailbox, state_file, max_emails, reset_state, email_concurrency, seen_uids,
                   email_sem_free, email_results, email_exc, email_ret, ingest_failed,
                   prev_run, file_before, failed_at, saved, email_run>>

(* fetch_email: async with semaphore.  The tasks start in the order gather *)
(* was given them, and the semaphore wakes its waiters first come, first   *)
(* served: a task enters once every task before it has.                    *)
AcquireFetch(u) ==
    /\ email_pc = "gather"
    /\ task[u] = "wait"
    /\ \A v \in Uids : v < u => task[v] # "wait"
    /\ email_sem_free > 0
    /\ email_sem_free' = email_sem_free - 1
    /\ task' = [task EXCEPT ![u] = "fetching"]
    /\ UNCHANGED <<mailbox, state_file, max_emails, reset_state, email_concurrency, seen_uids,
                   new_uids, email_results, session, email_exc, email_ret, ingest_failed,
                   prev_run, file_before, uid_list, failed_at, saved, email_run, email_pc>>

FetchEmailAlwaysSeen(u, ok) ==
    /\ email_pc = "gather"
    /\ task[u] = "fetching"
    /\ task' = [task EXCEPT ![u] = IF ok THEN "ok" ELSE "failed"]
    /\ seen_uids' = seen_uids \cup {u}
    /\ email_sem_free' = email_sem_free + 1
    /\ UNCHANGED <<mailbox, state_file, max_emails, reset_state, email_concurrency, new_uids,
                   email_results, session, email_exc, email_ret, ingest_failed, prev_run, file_before, uid_list, failed_at, saved,
                   email_run, email_pc>>

(* fetch_email: UID FETCH, the parse and the Items; self.seen_uids.add(uid) *)
(* is its last statement.  A result that is not OK or an exception returns  *)
(* [] before it.                                                            *)
FetchEmail(u, ok) ==
    /\ email_pc = "gather"
    /\ task[u] = "fetching"
    /\ task' = [task EXCEPT ![u] = IF ok THEN "ok" ELSE "failed"]
    /\ seen_uids' = IF ok THEN seen_uids \cup {u} ELSE seen_uids
    /\ email_sem_free' = email_sem_free + 1
    /\ UNCHANGED <<mailbox, state_file, max_emails, reset_state, email_concurrency, new_uids,
                   email_results, session, email_exc, email_ret, ingest_failed, prev_run, file_before, uid_list, failed_at, saved,
                   email_run, email_pc>>

GatherAndSaveOnlyNew(written) ==
    /\ email_pc = "gather"
    /\ \A u \in Uids : task[u] \in {"none", "ok", "failed"}
    /\ email_results' = SortByScore(AllResults(new_uids, task))
    /\ state_file' = IF written THEN File(Fetched) ELSE state_file
    /\ saved' = IF written THEN "written" ELSE "failed"
    /\ email_pc' = "finally"
    /\ UNCHANGED <<mailbox, max_emails, reset_state, email_concurrency, seen_uids, new_uids,
                   task, email_sem_free, session, email_exc, email_ret, ingest_failed,
                   prev_run, file_before, uid_list, failed_at, email_run>>

(* asyncio.gather returns; results are extended and sorted; the state file  *)
(* is written, or the write fails and is logged                             *)
GatherAndSave(written) ==
    /\ email_pc = "gather"
    /\ \A u \in Uids : task[u] \in {"none", "ok", "failed"}
    /\ email_results' = SortByScore(AllResults(new_uids, task))
    /\ state_file' = IF written THEN File(seen_uids) ELSE state_file
    /\ saved' = IF written THEN "written" ELSE "failed"
    /\ email_pc' = "finally"
    /\ UNCHANGED <<mailbox, max_emails, reset_state, email_concurrency, seen_uids, new_uids,
                   task, email_sem_free, session, email_exc, email_ret, ingest_failed,
                   prev_run, file_before, uid_list, failed_at, email_run>>

ReturnWithoutLogout(raises) ==
    /\ email_pc = "finally"
    /\ raises => session \in {"none", "closed"}
    /\ session' = session
    /\ email_ret' = IF email_exc \/ raises THEN <<>> ELSE email_results
    /\ email_exc' = FALSE
    /\ email_pc' = "returned"
    /\ UNCHANGED <<mailbox, state_file, max_emails, reset_state, email_concurrency, seen_uids,
                   new_uids, task, email_sem_free, email_results, ingest_failed, prev_run,
                   file_before, uid_list, failed_at, saved, email_run>>

(* finally: await client.logout(), then the return of read(): results, or  *)
(* [] when an exception left _async_read                                    *)
LogoutAndReturn(raises) ==
    /\ email_pc = "finally"
    /\ raises => session \in {"none", "closed"}
    /\ session' = IF session = "none" THEN "none" ELSE "closed"
    /\ email_ret' = IF email_exc \/ raises THEN <<>> ELSE email_results
    /\ email_exc' = FALSE
    /\ email_pc' = "returned"
    /\ UNCHANGED <<mailbox, state_file, max_emails, reset_state, email_concurrency, seen_uids,
                   new_uids, task, email_sem_free, email_results, ingest_failed, prev_run,
                   file_before, uid_list, failed_at, saved, email_run>>

(* PipelineRunner.run over the list read() returned: failed is the set of   *)
(* UIDs with an Item whose run_single fails                                 *)
RunPipelines(failed) ==
    /\ email_pc = "returned"
    /\ prev_run' = RunRecord
    /\ failed \subseteq {email_ret[i].uid : i \in 1..Len(email_ret)}
    /\ ingest_failed' = failed
    /\ email_pc' = "ingested"
    /\ UNCHANGED <<mailbox, state_file, max_emails, reset_state, email_concurrency, seen_uids,
                   new_uids, task, email_sem_free, email_results, session, email_exc,
                   email_ret, file_before, uid_list, failed_at, saved, email_run>>

(* a message arrives between two runs *)
Deliver ==
    /\ email_pc = "ingested"
    /\ email_run = "first"
    /\ FirstUid + MaxUids \notin mailbox
    /\ mailbox' = mailbox \cup {FirstUid + MaxUids}
    /\ UNCHANGED <<state_file, max_emails, reset_state, email_concurrency, seen_uids,
                   new_uids, task, email_sem_free, email_results, session, email_exc,
                   email_ret, ingest_failed, prev_run, file_before, uid_list, failed_at,
                   saved, email_run, email_pc>>

(* the next request: a new EmailSource over the same state file *)
NewEmailSource(reset) ==
    /\ email_pc = "ingested"
    /\ email_run = "first"
    /\ email_run' = "second"
    /\ reset_state' = reset
    /\ seen_uids' = LoadSeenUids(reset, state_file)
    /\ file_before' = state_file
    /\ uid_list' = <<>>
    /\ failed_at' = "none"
    /\ saved' = "none"
    /\ ingest_failed' = {}
    /\ new_uids' = <<>>
    /\ task' = NoTasks
    /\ email_results' = <<>>
    /\ email_ret' = <<>>
    /\ session' = "none"
    /\ email_pc' = "hello"
    /\ UNCHANGED <<mailbox, state_file, max_emails, email_concurrency, email_sem_free,
                   email_exc, prev_run>>

EmailIdle ==
    /\ mailbox = {}
    /\ state_file = NoFile
    /\ max_emails = DefaultMaxEmails
    /\ reset_state = FALSE
    /\ email_concurrency = 1
    /\ seen_uids = {}
    /\ new_uids = <<>>
    /\ task = NoTasks
    /\ email_sem_free = 1
    /\ email_results = <<>>
    /\ session = "none"
    /\ email_exc = FALSE
    /\ email_ret = <<>>
    /\ ingest_failed = {}
    /\ prev_run = NoRun
    /\ file_before = NoFile
    /\ uid_list = <<>>
    /\ failed_at = "none"
    /\ saved = "none"
    /\ email_run = "first"
    /\ email_pc = "idle"

(***************************************************************************)
(* Part VII.  CleanProcessor applied twice (specification SpecClean)       *)
(*                                                                         *)
(* The text is one line that begins with a word of more than 30 letters,   *)
(* followed by letters, spaces and hyphens.  On such a line the steps of   *)
(* CleanProcessor.process that change the text are the hyphen rule at the  *)
(* end of _l2_layout_noise_removal, the collapse of white space, the trim  *)
(* and the final length test; the other rules need a digit, a line break,  *)
(* a bracket, a CJK character or a line without a letter.                  *)
(***************************************************************************)
MaxTailLen == 6      \* most characters after the long word

VARIABLES
    dirty_text,      \* data["raw_text"] of the first call
    cleaned_once,    \* clean_text of the first call
    cleaned_twice,   \* clean_text of the call on cleaned_once
    clean_pc         \* "raw", "once", "twice"

cleanVars == <<dirty_text, cleaned_once, cleaned_twice, clean_pc>>

DashChars == {"a", " ", "-"}

LongWord == [i \in 1..(MinCleanLen + 1) |-> "a"]

DirtyTexts == {LongWord \o t : t \in UNION {[1..n -> DashChars] : n \in 0..MaxTailLen}}

(* \w, for the letters of the text *)
IsWordChar(c) == c = "a"

(* the end of \w+ and of \s* from position i: the first position past it *)
RECURSIVE WordEnd(_, _)
WordEnd(t, i) == IF i <= Len(t) /\ IsWordChar(t[i]) THEN WordEnd(t, i + 1) ELSE i

RECURSIVE SpaceEnd(_, _)
SpaceEnd(t, i) == IF i <= Len(t) /\ t[i] = " " THEN SpaceEnd(t, i + 1) ELSE i

(* a match of (\w+)\s*[-...]\s+(\w+) that begins at position i: the ends   *)
(* of group 1, of the white space after the hyphen and of group 2          *)
DashMatch(t, i) ==
    LET j == WordEnd(t, i)
        k == SpaceEnd(t, j)
        m == SpaceEnd(t, k + 1)
        n == WordEnd(t, m)
    IN  [found |-> /\ j > i
                   /\ k <= Len(t) /\ t[k] = "-"
                   /\ m > k + 1
                   /\ n > m,
         word1 |-> j, word2 |-> m, end |-> n]

(* re.sub(r"(\w+)\s*[-...]\s+(\w+)", r"\1\2", text): the matches are taken *)
(* from left to right and do not overlap                                   *)
RECURSIVE JoinAcrossDash(_, _)
JoinAcrossDash(t, i) ==
    IF i > Len(t) THEN <<>>
    ELSE LET mt == DashMatch(t, i)
         IN  IF mt.found
             THEN SubSeq(t, i, mt.word1 - 1) \o SubSeq(t, mt.word2, mt.end - 1)
                  \o JoinAcrossDash(t, mt.end)
             ELSE <<t[i]>> \o JoinAcrossDash(t, i + 1)

(* CleanProcessor.process on a line of DirtyTexts, or on its own result *)
CleanDashed(t) == CleanText(JoinAcrossDash(t, 1))

CleanInit ==
    /\ dirty_text \in DirtyTexts
    /\ cleaned_once = <<>>
    /\ cleaned_twice = <<>>
    /\ clean_pc = "raw"

(* process({"raw_text": dirty_text}) *)
CleanOnce ==
    /\ clean_pc = "raw"
    /\ cleaned_once' = CleanDashed(dirty_text)
    /\ clean_pc' = "once"
    /\ UNCHANGED <<dirty_text, cleaned_twice>>

(* process({"raw_text": cleaned_once}); an empty raw_text and no binary     *)
(* give the empty text                                                      *)
CleanTwice ==
    /\ clean_pc = "once"
    /\ cleaned_twice' = CleanDashed(cleaned_once)
    /\ clean_pc' = "twice"
    /\ UNCHANGED <<dirty_text, cleaned_once>>

CleanIdle ==
    /\ dirty_text = <<>>
    /\ cleaned_once = <<>>
    /\ cleaned_twice = <<>>
    /\ clean_pc = "idle"

notRunnerVars == <<idVars, stableVars, contentVars, crawlVars, emailVars, cleanVars>>

notIdVars == <<runnerVars, stableVars, contentVars, crawlVars, emailVars, cleanVars>>

notStableVars == <<runnerVars, idVars, contentVars, crawlVars, emailVars, cleanVars>>

notContentVars == <<runnerVars, idVars, stableVars, crawlVars, emailVars, cleanVars>>

notCrawlVars == <<runnerVars, idVars, stableVars, contentVars, emailVars, cleanVars>>

notEmailVars == <<runnerVars, idVars, stableVars, contentVars, crawlVars, cleanVars>>

notCleanVars == <<runnerVars, idVars, stableVars, contentVars, crawlVars, emailVars>>

(* A step of PipelineRunner; the Item of Part II is not involved. *)
RunnerNext ==
    \/ \E i \in Items : StartWorker(i) /\ UNCHANGED notRunnerVars
    \/ \E i \in Items : CallProcessor(i) /\ UNCHANGED notRunnerVars
    \/ \E i \in Items : \E v \in PyValues : ProcessReturns(i, v) /\ UNCHANGED notRunnerVars
    \/ \E i \in Items : ProcessRaises(i) /\ UNCHANGED notRunnerVars
    \/ \E i \in Items : HandleReturn(i) /\ UNCHANGED notRunnerVars
    \/ \E i \in Items : \E ok \in BOOLEAN : WriteSink(i, ok) /\ UNCHANGED notRunnerVars
    \/ \E i \in Items : Finish(i) /\ UNCHANGED notRunnerVars
    \/ \E i \in Items : Collect(i) /\ UNCHANGED notRunnerVars
    \/ ReturnBatch /\ UNCHANGED notRunnerVars
    \/ ReturnSingle /\ UNCHANGED notRunnerVars
    \/ RaiseSingle /\ UNCHANGED notRunnerVars

(* A step of the Item of Part II. *)
IdNext ==
    \/ IdProcessorRaises /\ UNCHANGED notIdVars
    \/ IdProcessorProcess /\ UNCHANGED notIdVars
    \/ TikaWebText /\ UNCHANGED notIdVars
    \/ TikaNoBinary /\ UNCHANGED notIdVars
    \/ TikaExtract /\ UNCHANGED notIdVars
    \/ TikaRaises /\ UNCHANGED notIdVars
    \/ AssembleProcess /\ UNCHANGED notIdVars
    \/ Summarise /\ UNCHANGED notIdVars

(* While one part runs, the variables of the others stay at rest. *)
RunnerIdle ==
    /\ procs = <<>> /\ processors = <<>> /\ max_workers = 1
    /\ source = "dict" /\ nitems = 0
    /\ pc = [i \in Items |-> "none"]
    /\ idx = [i \in Items |-> 1]
    /\ data = [i \in Items |-> SourceItem]
    /\ calls = [i \in Items |-> <<>>]
    /\ merged = [i \in Items |-> <<>>]
    /\ writes = [i \in Items |-> <<>>]
    /\ stored = [i \in Items |-> {}]
    /\ threw = [i \in Items |-> NoThrow]
    /\ out = [i \in Items |-> NoOut]
    /\ exc = [i \in Items |-> NoExc]
    /\ ret = [i \in Items |-> NoRet]
    /\ summaries = <<>>
    /\ collected = {}
    /\ result = [kind |-> "idle"]

IdIdle ==
    /\ item_source = "file"
    /\ user_metadata = <<>>
    /\ item_ids = <<>>
    /\ doc_id = None
    /\ metadata = <<>>
    /\ id_pc = "idle"
    /\ summary_doc_id = None

StableNext ==
    \/ \E r \in Runs : RunIdentity(r) /\ UNCHANGED notStableVars

(* A step of the Item of Part IV. *)
ContentNext ==
    \/ CleanProcess /\ UNCHANGED notContentVars
    \/ ChunkProcess /\ UNCHANGED notContentVars
    \/ EmbedProcess /\ UNCHANGED notContentVars
    \/ EmbedRaises /\ UNCHANGED notContentVars
    \/ AssembleDocs /\ UNCHANGED notContentVars
    \/ ContentSummarise /\ UNCHANGED notContentVars

(* A step of a run of Part VI. *)
EmailNext ==
    \/ \E ok \in BOOLEAN : WaitHello(ok) /\ UNCHANGED notEmailVars
    \/ \E outcome \in {"OK", "NO", "raises"} : Login(outcome) /\ UNCHANGED notEmailVars
    \/ \E outcome \in {"OK", "NO", "raises"} : Select(outcome) /\ UNCHANGED notEmailVars
    \/ \E outcome \in {"NO", "raises"} : SearchFails(outcome) /\ UNCHANGED notEmailVars
    \/ \E listed \in Listings : Search(listed) /\ UNCHANGED notEmailVars
    \/ \E u \in Uids : AcquireFetch(u) /\ UNCHANGED notEmailVars
    \/ \E u \in Uids : \E ok \in BOOLEAN : FetchEmail(u, ok) /\ UNCHANGED notEmailVars
    \/ \E written \in BOOLEAN : GatherAndSave(written) /\ UNCHANGED notEmailVars
    \/ \E raises \in BOOLEAN : LogoutAndReturn(raises) /\ UNCHANGED notEmailVars
    \/ \E failed \in {{}} \cup {{u} : u \in Uids} :
          RunPipelines(failed) /\ UNCHANGED notEmailVars
    \/ Deliver /\ UNCHANGED notEmailVars
    \/ \E reset \in BOOLEAN : NewEmailSource(reset) /\ UNCHANGED notEmailVars

(* A step of the crawl of Part V. *)
CrawlNext ==
    \/ \E w \in Workers : WorkerGet(w) /\ UNCHANGED notCrawlVars
    \/ \E w \in Workers : AcquireSem(w) /\ UNCHANGED notCrawlVars
    \/ \E w \in Workers : \E kind \in {"html", "binary", "skip"} :
          Fetch(w, kind) /\ UNCHANGED notCrawlVars
    \/ JoinReturns /\ UNCHANGED notCrawlVars
    \/ CancelWorkers /\ UNCHANGED notCrawlVars
    \/ ReadReturns /\ UNCHANGED notCrawlVars

(* A step of the crawl of Part V where the link loop of a page may raise. *)
CrawlErrorsNext ==
    \/ \E w \in Workers : WorkerGet(w) /\ UNCHANGED notCrawlVars
    \/ \E w \in Workers : AcquireSem(w) /\ UNCHANGED notCrawlVars
    \/ \E w \in Workers : \E kind \in FetchKinds :
          Fetch(w, kind) /\ UNCHANGED notCrawlVars
    \/ JoinReturns /\ UNCHANGED notCrawlVars
    \/ CancelWorkers /\ UNCHANGED notCrawlVars
    \/ ReadReturns /\ UNCHANGED notCrawlVars

(* A step of the crawl of a site that answers the same way every time. *)
CrawlSiteNext ==
    \/ \E w \in Workers : WorkerGet(w) /\ UNCHANGED notCrawlVars
    \/ \E w \in Workers : AcquireSem(w) /\ UNCHANGED notCrawlVars
    \/ \E w \in Workers : FetchPage(w) /\ UNCHANGED notCrawlVars
    \/ JoinReturns /\ UNCHANGED notCrawlVars
    \/ CancelWorkers /\ UNCHANGED notCrawlVars
    \/ ReadReturns /\ UNCHANGED notCrawlVars

(* A step of the two calls of Part VII. *)
CleanNext ==
    \/ CleanOnce /\ UNCHANGED notCleanVars
    \/ CleanTwice /\ UNCHANGED notCleanVars

vars == <<runnerVars, idVars, stableVars, contentVars, crawlVars, emailVars, cleanVars>>

Init == RunnerInit /\ IdIdle /\ StableIdle /\ ContentIdle /\ CrawlIdle /\ EmailIdle /\ CleanIdle

Next == RunnerNext

Spec == Init /\ [][Next]_vars

InitId == IdInit /\ RunnerIdle /\ StableIdle /\ ContentIdle /\ CrawlIdle /\ EmailIdle /\ CleanIdle

NextId == IdNext

SpecId == InitId /\ [][NextId]_vars

InitStable == StableInit /\ RunnerIdle /\ IdIdle /\ ContentIdle /\ CrawlIdle /\ EmailIdle /\ CleanIdle

NextStable == StableNext

SpecStable == InitStable /\ [][NextStable]_vars

InitContent == ContentInit /\ RunnerIdle /\ IdIdle /\ StableIdle /\ CrawlIdle /\ EmailIdle /\ CleanIdle

NextContent == ContentNext

SpecContent == InitContent /\ [][NextContent]_vars

(* ChunkProcessor on its own *)
ChunkNext ==
    \/ ChunkProcess /\ UNCHANGED notContentVars

InitChunk == ChunkInit /\ RunnerIdle /\ IdIdle /\ StableIdle /\ CrawlIdle /\ EmailIdle /\ CleanIdle

NextChunk == ChunkNext

SpecChunk == InitChunk /\ [][NextChunk]_vars

InitCrawl == CrawlInit /\ RunnerIdle /\ IdIdle /\ StableIdle /\ ContentIdle /\ EmailIdle /\ CleanIdle

NextCrawl == CrawlNext

(* The event loop runs every task that is ready, and every request ends,   *)
(* with an answer or with the 30 s timeout of the session: a step that     *)
(* stays enabled is taken.                                                  *)
CrawlFairness ==
    /\ \A w \in Workers : WF_vars(WorkerGet(w) /\ UNCHANGED notCrawlVars)
    /\ \A w \in Workers : WF_vars(AcquireSem(w) /\ UNCHANGED notCrawlVars)
    /\ \A w \in Workers :
          WF_vars(\E kind \in {"html", "binary", "skip"} : Fetch(w, kind) /\ UNCHANGED notCrawlVars)
    /\ WF_vars(JoinReturns /\ UNCHANGED notCrawlVars)
    /\ WF_vars(CancelWorkers /\ UNCHANGED notCrawlVars)
    /\ WF_vars(ReadReturns /\ UNCHANGED notCrawlVars)

SpecCrawl == InitCrawl /\ [][NextCrawl]_vars /\ CrawlFairness

NextCrawlErrors == CrawlErrorsNext

SpecCrawlErrors == InitCrawl /\ [][NextCrawlErrors]_vars

InitCrawlSite ==
    CrawlSiteInit /\ RunnerIdle /\ IdIdle /\ StableIdle /\ ContentIdle /\ EmailIdle /\ CleanIdle

NextCrawlSite == CrawlSiteNext

SpecCrawlSite == InitCrawlSite /\ [][NextCrawlSite]_vars

InitEmail == EmailInit /\ RunnerIdle /\ IdIdle /\ StableIdle /\ ContentIdle /\ CrawlIdle /\ CleanIdle

NextEmail == EmailNext

SpecEmail == InitEmail /\ [][NextEmail]_vars

InitClean == CleanInit /\ RunnerIdle /\ IdIdle /\ StableIdle /\ ContentIdle /\ CrawlIdle /\ EmailIdle

NextClean == CleanNext

SpecClean == InitClean /\ [][NextClean]_vars

(***************************************************************************)
(* Properties of PipelineRunner (checked under Spec)                       *)
(***************************************************************************)

(* the order a processor sorts by, as the specification words it *)
StatedOrder(p) == IF HasOrder(p) THEN DeclaredOrder(p) ELSE 100

(* the place of processor p in the list handed to the constructor *)
Registered(p) == CHOOSE n \in 1..Len(procs) : procs[n] = p

Last(s) == s[Len(s)]

IsPrefix(s, t) == Len(s) <= Len(t) /\ s = SubSeq(t, 1, Len(s))

(* the processors and the sinks of Item i all succeeded *)
AllSucceeded(i) ==
    /\ Len(merged[i]) = Len(procs)
    /\ stored[i] = Sinks

ProcessorFailed(i) == pc[i] = "failed" /\ exc[i].type = "RuntimeError"

(* the places of the entries of future i in the summaries list *)
EntriesOf(i) == {n \in 1..Len(summaries) : summaries[n].future = i}

(* C1: for every Item, processors are invoked in non-decreasing order (no   *)
(* order counting as 100), equal orders in registration order, and a        *)
(* processor is invoked only after every earlier one has returned and been  *)
(* merged.                                                                  *)
C1_OrderedSequential ==
    \A i \in Items :
        /\ \A m, n \in 1..Len(calls[i]) :
              m < n =>
                LET a == calls[i][m]
                    b == calls[i][n]
                IN  \/ StatedOrder(a) < StatedOrder(b)
                    \/ StatedOrder(a) = StatedOrder(b) /\ Registered(a) < Registered(b)
        /\ IsPrefix(merged[i], calls[i])
        /\ Len(calls[i]) <= Len(merged[i]) + 1
        /\ pc[i] \in {"inproc", "returned"} <=> Len(calls[i]) = Len(merged[i]) + 1 /\ pc[i] # "failed"

(* C1 witness: a list registered out of order, with a tie between a         *)
(* processor of order 100 and one without order, has been run to the end.   *)
C1_Witness ==
    /\ procs = <<"Plugin", "AssembleProcessor", "IdProcessor">>
    /\ calls[1] = <<"IdProcessor", "Plugin", "AssembleProcessor">>
    /\ merged[1] = calls[1]

(* process() raised for Item i *)
ProcessorRaised(i) == threw[i].kind = "processor"

(* write() raised for Item i *)
SinkRaised(i) == threw[i].kind = "sink"

(* C2: once a processor has raised for an Item, no later processor and no   *)
(* sink is invoked for it, and a batch run reports the Item in exactly one  *)
(* entry, whose status is "failed".                                         *)
C2_ProcessorFailureAborts ==
    \A i \in Items :
        ProcessorRaised(i) =>
            /\ Len(calls[i]) = threw[i].at
            /\ calls[i] = SubSeq(processors, 1, Len(calls[i]))
            /\ Len(merged[i]) = Len(calls[i]) - 1
            /\ writes[i] = <<>>
            /\ stored[i] = {}
            /\ ret[i] = NoRet
            /\ (source = "list" /\ (i \in collected \/ result.kind = "returned")) =>
                  /\ Cardinality(EntriesOf(i)) = 1
                  /\ \A n \in EntriesOf(i) : summaries[n].entry.status = Lit("failed")
            /\ (source = "list" /\ result.kind = "returned") =>
                  \A n \in EntriesOf(i) : result.files[n].status = Lit("failed")

(* C2 witness: a batch run has returned with an Item whose first processor  *)
(* raised while a later processor was still to come.                        *)
C2_Witness ==
    /\ source = "list"
    /\ result.kind = "returned"
    /\ \E i \in Present :
          /\ ProcessorRaised(i)
          /\ Len(calls[i]) = 1

NonMappings == {"None", "[]", "''", "0", "[1]", "'x'"}

TruthyNonMappings == {"[1]", "'x'"}

(* the step in which the runner deals with what process() returned *)
Handles(i) == pc[i] = "returned" /\ pc'[i] # "returned"

C4_SiblingsUnaffected ==
    source = "list" =>
        /\ result.kind # "raised"
        /\ result.kind = "returned" =>
              /\ Len(result.files) = nitems
              /\ \A i \in Present :
                    AllSucceeded(i) =>
                        /\ Cardinality(EntriesOf(i)) = 1
                        /\ \A n \in EntriesOf(i) :
                              /\ summaries[n].entry.status = Lit("ok")
                              /\ result.files[n] = summaries[n].entry

(* C4 witness: a batch run returned in which the Item submitted second      *)
(* failed and was reported first, and the Item submitted first succeeded.   *)
C4_Witness ==
    /\ source = "list"
    /\ max_workers > 1
    /\ result.kind = "returned"
    /\ \E i, j \in Present :
          /\ i > j
          /\ pc[i] = "failed"
          /\ AllSucceeded(j)
          /\ summaries[1].future = i

(* C5: with a single-Item source a processor failure leaves run() as an     *)
(* error naming the failing processor and there is no summary; with a list  *)
(* source, of length 1 too, run() returns and the failure is an entry.      *)
C5_SingleRaisesBatchReports ==
    \A i \in Items :
        (ProcessorFailed(i) /\ result.kind # "running") =>
            IF source = "dict"
            THEN /\ result.kind = "raised"
                 /\ "files" \notin DOMAIN result
                 /\ result.error.type = "RuntimeError"
                 /\ result.error.processor = Last(calls[i])
                 /\ StrOf(result.error)[2] = Last(calls[i])
            ELSE /\ result.kind = "returned"
                 /\ \E n \in 1..Len(result.files) :
                       /\ summaries[n].future = i
                       /\ result.files[n].status = Lit("failed")
                       /\ result.files[n].error[2] = Last(calls[i])

(* C5 witness: a single-Item run ended in the error of its second processor *)
C5_Witness ==
    /\ source = "dict"
    /\ result.kind = "raised"
    /\ Len(calls[1]) = 2
    /\ result.error.processor = calls[1][2]

(* how often x occurs in the sequence s *)
Count(s, x) == Cardinality({n \in 1..Len(s) : s[n] = x})

(* C6: on an Item where nothing fails every processor is invoked exactly    *)
(* once, then every sink's write exactly once in sink-list order; no sink   *)
(* is invoked before the last processor has returned.                       *)
C6_EachOnceThenSinks ==
    \A i \in Items :
        /\ writes[i] # <<>> =>
              /\ Len(merged[i]) = Len(procs)
              /\ \A n \in 1..Len(procs) : Count(calls[i], procs[n]) = 1
        /\ (pc[i] = "done" /\ AllSucceeded(i)) =>
              /\ Len(calls[i]) = Len(procs)
              /\ \A n \in 1..Len(procs) : Count(calls[i], procs[n]) = 1
              /\ writes[i] = [n \in 1..NSinks |-> n]

(* C6 witness: an Item has passed three processors and every sink *)
C6_Witness ==
    \E i \in Present :
        /\ pc[i] = "done"
        /\ AllSucceeded(i)
        /\ Len(procs) = 3

(* C7: when sink k raises, no sink after k is invoked, the writes of the    *)
(* sinks before k stand, and the Item is reported failed (batch) or the     *)
(* error leaves run() (single Item).                                        *)
C7_SinkFailureAborts ==
    \A i \in Items :
        SinkRaised(i) =>
            LET k == writes[i][threw[i].at]
            IN  /\ Len(writes[i]) = threw[i].at
                /\ writes[i] = [n \in 1..k |-> n]
                /\ stored[i] = 1..(k - 1)
                /\ pc[i] = "failed"
                /\ ret[i] = NoRet
                /\ (source = "list" /\ (i \in collected \/ result.kind = "returned")) =>
                      /\ Cardinality(EntriesOf(i)) = 1
                      /\ \A n \in EntriesOf(i) : summaries[n].entry.status = Lit("failed")
                /\ (source = "list" /\ result.kind = "returned") =>
                      \A n \in EntriesOf(i) : result.files[n].status = Lit("failed")
                /\ (source = "dict" /\ result.kind # "running") =>
                      /\ result.kind = "raised"
                      /\ result.error = SinkError(k)

(* C7 witness: the second sink raised after the first had written, and the  *)
(* batch run reported the Item.                                             *)
C7_Witness ==
    \E i \in Present :
        /\ SinkRaised(i)
        /\ exc[i].sink = 2
        /\ stored[i] = {1}
        /\ i \in collected

SummaryKeys ==
    {"file_name", "doc_id", "status", "chunk_count", "embedding_count",
     "embedding_dim", "source", "elapsed_ms", "error"}

HeavyKeys ==
    {"binary", "raw_text", "clean_text", "chunks", "embeddings", "solr_docs",
     "vector_docs"}

(* the value v is the content of a heavy field of an Item *)
IsHeavy(v) == v[1] \notin {"lit", "len", "dim"} /\ v[2] \in HeavyKeys

Lightweight(e) ==
    /\ DOMAIN e \subseteq SummaryKeys
    /\ \A k \in DOMAIN e : ~IsHeavy(e[k])

(* C8: every entry of the summary, ok or failed, has only summary keys and  *)
(* carries no binary, text, chunks or embedding vectors.                    *)
C8_SummaryIsLightweight ==
    /\ \A n \in 1..Len(summaries) : Lightweight(summaries[n].entry)
    /\ result.kind = "returned" =>
          \A n \in 1..Len(result.files) : Lightweight(result.files[n])

(* C8 witness: a returned summary with an ok entry of an Item that carried  *)
(* chunks, and a failed entry.                                              *)
C8_Witness ==
    /\ result.kind = "returned"
    /\ Len(result.files) = 2
    /\ \E m, n \in 1..2 :
          /\ result.files[m].status = Lit("failed")
          /\ result.files[n].status = Lit("ok")
          /\ result.files[n].chunk_count = LenOf(Payload("ChunkProcessor", "chunks"))

(* C30: no processor modifies the Item it is given.  The Item changes only  *)
(* in the step where run_single merges the mapping a processor returned,    *)
(* so the call of process(), its return and its exception all leave the     *)
(* Item as it was.                                                          *)
C30_ItemChangesOnlyByMerge ==
    [][\A i \in Items : data'[i] # data[i] => pc[i] = "returned"]_vars

(***************************************************************************)
(* Properties of the doc_id of an Item (checked under SpecId)              *)
(***************************************************************************)

(* IdProcessor has returned for the Item *)
Identified == id_pc \in {"TikaProcessor", "AssembleProcessor", "summary", "done"}

(* a string with something other than white space in it *)
NonBlank(v) == TruthyStr(v) /\ TruthyStr(Strip(v))

(* the id fields the caller supplied, by location *)
CallerIds(loc) ==
    IF loc = "root" THEN item_ids
    ELSE [k \in DOMAIN user_metadata \cap IdKeys |-> user_metadata[k]]

(* the value under k at loc is the only id the caller supplied *)
OnlyIdSupplied(loc, k) ==
    /\ DOMAIN CallerIds(loc) = {k}
    /\ \A other \in {"root", "user_metadata"} \ {loc} : DOMAIN CallerIds(other) = {}

(* C9: in every state after IdProcessor has returned, also after            *)
(* TikaProcessor has replaced metadata and after AssembleProcessor has      *)
(* returned doc_id, the doc_id of the Item is non-empty and equal to        *)
(* metadata.doc_id, whatever user_metadata the caller supplied.             *)
C9_DocIdEqualsMetadataDocId ==
    Identified =>
        /\ TruthyStr(doc_id)
        /\ doc_id = Get(metadata, "doc_id")

(* C10: for each of the keys doc_id, business_id, archive_no and id, at the *)
(* Item root or in user_metadata: if the caller supplies a non-blank value  *)
(* under it and no other id, IdProcessor assigns doc_id that value trimmed, *)
(* and the summary of the run reports it.                                   *)
C10_CallerIdIsDocId ==
    \A loc \in {"root", "user_metadata"} : \A k \in IdKeys :
        (OnlyIdSupplied(loc, k) /\ NonBlank(CallerIds(loc)[k])) =>
            /\ id_pc = "TikaProcessor" => doc_id = Strip(CallerIds(loc)[k])
            /\ id_pc = "done" => summary_doc_id = Strip(CallerIds(loc)[k])

(* no id reaches IdProcessor from the caller, at either location *)
NoCallerId == DOMAIN CallerIds("root") = {} /\ DOMAIN CallerIds("user_metadata") = {}

RagUpload == <<"r", "a", "g", "_", "u", "p", "l", "o", "a", "d">>

(* the source_system the id is to be prefixed with: the caller's, or the    *)
(* default tag                                                              *)
StatedSourceSystem ==
    IF "source_system" \in DOMAIN user_metadata THEN user_metadata["source_system"]
    ELSE RagUpload

(* C11: with no caller-supplied id, the doc_id IdProcessor computes is      *)
(* <source_system>_<16 hex>, where source_system is the one supplied in     *)
(* user_metadata and otherwise the default tag rag_upload.                  *)
C11_HashedIdHasSourceSystemPrefix ==
    (id_pc = "TikaProcessor" /\ NoCallerId) =>
        doc_id = StatedSourceSystem \o <<"_">> \o Hex16(ItemFileName, ContentForHash)

(* C13: after TikaProcessor, on each of its three paths, metadata[k] is     *)
(* user_metadata[k] for every key k the caller supplied in user_metadata.   *)
C13_UserMetadataWins ==
    id_pc = "AssembleProcessor" =>
        \A k \in DOMAIN user_metadata : Get(metadata, k) = user_metadata[k]

SameRequestAsFileAndBase64(r1, r2) ==
    /\ run_items[r1].source = "file"
    /\ run_items[r2].source = "base64"
    /\ run_items[r1].file_name = run_items[r2].file_name
    /\ run_items[r1].binary = run_items[r2].binary
    /\ run_items[r1].source_system = run_items[r2].source_system

(* C32: for the same file name, bytes and user_metadata, Base64Source       *)
(* yields the same Item as FileSource, user_metadata included, and both     *)
(* Items get the same doc_id.                                               *)
C32_Base64EquivalentToFile ==
    \A r1 \in Runs, r2 \in Runs :
        (/\ SameRequestAsFileAndBase64(r1, r2)
         /\ run_doc_id[r1] # None
         /\ run_doc_id[r2] # None) =>
            /\ ItemOfRun(r1) = ItemOfRun(r2)
            /\ run_doc_id[r1] = run_doc_id[r2]

(* two finished runs on Items with the same content and source_system *)
SameContentBothDone(r1, r2) ==
    /\ run_doc_id[r1] # None
    /\ run_doc_id[r2] # None
    /\ ItemOfRun(r1).binary = ItemOfRun(r2).binary
    /\ ItemOfRun(r1).user_metadata = ItemOfRun(r2).user_metadata

Embedded == content_pc \in {"AssembleProcessor", "summary", "done"}

(* AssembleProcessor has returned for the Item *)
Assembled == content_pc \in {"summary", "done"}

(* embeddings is aligned one to one with chunks *)
Aligned ==
    /\ Len(embeddings) = Len(chunks)
    /\ \A i \in 1..Len(embeddings) : i <= Len(chunks) /\ embeddings[i].text = chunks[i]

(* C14 as stated: after EmbedProcessor, len(embeddings) = len(chunks) and   *)
(* embeddings[i].text = chunks[i] for every i, whether or not an embedder   *)
(* is configured.                                                           *)
C14_EmbeddingsAlignedAlways == Embedded => Aligned

(* C14, amended: after EmbedProcessor, embeddings is aligned one to one     *)
(* with chunks when an embedder is configured, and is empty when none is.   *)
C14_EmbeddingsAlignedWithEmbedder ==
    Embedded =>
        /\ embed_client => Aligned
        /\ ~embed_client => embeddings = <<>>

C14_Witness ==
    /\ Embedded
    /\ embed_client
    /\ Len(chunks) >= 2
    /\ chunks[1] # chunks[2]
    /\ Aligned

(* C15: after AssembleProcessor, solr_docs[0].chunk_count is the number of  *)
(* vector_docs and every vector_docs[i].parent_id is solr_docs[0].id, for   *)
(* every metadata mapping the caller supplied.                              *)
C15_ParentCountsItsChunks ==
    Assembled =>
        /\ solr_docs[1]["chunk_count"] = Len(vector_docs)
        /\ \A i \in 1..Len(vector_docs) : vector_docs[i].parent_id = solr_docs[1]["id"]

(* C31: after AssembleProcessor there is one chunk record for each element *)
(* of chunks, in order, its chunk_index its position: vector_docs is as     *)
(* long as chunks and solr_docs one longer, with or without an embedder.    *)
C31_OneChunkRecordPerChunk ==
    Assembled =>
        /\ Len(vector_docs) = Len(chunks)
        /\ Len(solr_docs) = Len(chunks) + 1
        /\ \A i \in 1..Len(vector_docs) :
              /\ vector_docs[i].chunk_index = i - 1
              /\ i <= Len(chunks) /\ vector_docs[i].chunk_content = chunks[i]

(* the text of the Item with the surrounding white space taken off *)
TrimmedText == Strip(raw_text)

(* C16: a text that is clean already, not empty and no longer than          *)
(* chunk_size, ingested with no provider, gives clean_text equal to the     *)
(* trimmed text, the one chunk holding it, no embeddings, and a summary     *)
(* with chunk_count 1 and embedding_count 0.                                *)
C16_ShortCleanTextIsOneChunk ==
    (/\ content_pc = "done"
     /\ ~embed_client
     /\ TrimmedText # <<>>
     /\ Len(TrimmedText) <= chunk_size) =>
        /\ clean_text = TrimmedText
        /\ chunks = <<TrimmedText>>
        /\ embeddings = <<>>
        /\ summary_counts = [chunk_count |-> 1, embedding_count |-> 0]

(***************************************************************************)
(* Properties of WebCrawlerSource (checked under SpecCrawl)                *)
(***************************************************************************)

(* the path of a URL as the scope check reads it *)
PathOf(u) == IF u.path = <<>> THEN <<"/">> ELSE u.path

(* the directory prefix of the path of the start URL the caller gave *)
StatedDirPrefix ==
    IF start_url.path # <<>> /\ start_url.path[Len(start_url.path)] = "/"
    THEN start_url.path
    ELSE DirName(start_url.path) \o <<"/">>

(* the registrable domain of the hosts of the model, all under a one-label  *)
(* public suffix                                                            *)
RegistrableDomain(host) == SubSeq(host, Len(host) - 1, Len(host))

StatedHostInScope(u) ==
    \/ u.host = start_url.host
    \/ allow_subdomains /\ EndsWithDot(u.host, RegistrableDomain(start_url.host))

(* the path lies in the start directory, or is that directory without its   *)
(* trailing slash                                                           *)
StatedPathInScope(u) ==
    \/ StartsWith(PathOf(u), StatedDirPrefix)
    \/ PathOf(u) \o <<"/">> = StatedDirPrefix

StatedInScope(u) == StatedHostInScope(u) /\ (restrict_to_path => StatedPathInScope(u))

(* C17: in every state of a crawl, the source_path of every Item in results *)
(* is in scope: its host is the start host, or a subdomain of the start     *)
(* host's registrable domain when allow_subdomains, and with                *)
(* restrict_to_path its path starts with the directory of the start path.   *)
C17_ResultsInScope == \A i \in 1..Len(results) : StatedInScope(results[i])

(* the URLs the scope check is asked about *)
CandidateUrls == {NormalizeUrl(AllLinks[i]) : i \in 1..Len(AllLinks)}

(* C18: with restrict_to_path the scope check accepts a URL of the start    *)
(* host exactly when its path starts with the directory of the start path;  *)
(* for the start URL https://a.example.com/docs/ without subdomains it      *)
(* accepts /docs/sub/x and rejects /blog/x and b.example.com/docs/x.        *)
C18_RestrictToPathScope ==
    restrict_to_path =>
        /\ \A u \in CandidateUrls :
              u.host = start_url.host =>
                  (IsUrlInScope(u) <=> StartsWith(PathOf(u), StatedDirPrefix))
        /\ (start_url = Url(HostA, PathDocs) /\ ~allow_subdomains) =>
              /\ IsUrlInScope(Url(HostA, PathDocsSubX))
              /\ ~IsUrlInScope(Url(HostA, PathBlogX))
              /\ ~IsUrlInScope(Url(HostB, PathDocsX))

NoRepeat(q) == \A i \in 1..Len(q) : \A j \in 1..Len(q) : i # j => q[i] # q[j]

(* C19: under every interleaving of the workers no URL is fetched more than *)
(* once in one run, and no two Items in results have the same source_path.  *)
C19_NoUrlFetchedTwice == NoRepeat(fetched) /\ NoRepeat(results)

(* the start URL was put on the queue a second time, by a page linking to   *)
(* it, and the crawl has ended with several Items                           *)
C19_Witness ==
    /\ crawl_pc = "returned"
    /\ concurrency > 1
    /\ SelfStartUrl \in seen_urls
    /\ Len(results) >= 2

(* C20: for every link graph, every max_depth and every interleaving of the *)
(* workers the crawl ends: the queue is drained, every worker has stopped   *)
(* and read() has returned its results.                                     *)
C20_CrawlTerminates ==
    <>(/\ crawl_pc = "returned"
       /\ queue = <<>>
       /\ unfinished = 0
       /\ \A w \in Workers : worker[w].pc \in {"cancelled", "none"})

(* a crawl of the graph with cycles, to the largest depth, has returned *)
C20_Witness ==
    /\ crawl_pc = "returned"
    /\ site = "all"
    /\ max_depth = MaxDepth
    /\ Len(fetched) >= 3
    /\ \A w \in Workers : worker[w].pc \in {"cancelled", "none"}

(* the URLs waiting on the work queue *)
QueuedUrls == {queue[i].url : i \in 1..Len(queue)}

(* the URLs put on the work queue so far: those taken off it, each of      *)
(* which the worker adds to visited_urls, and those still on it            *)
EnqueuedUrls == visited_urls \cup QueuedUrls

(* the URL the queue is seeded with *)
SeedUrl == NormalizeUrl(SelfStartUrl)

(* C35 as stated: in one crawl every normalised URL, the start URL          *)
(* included, is put on the work queue at most once: no URL waits on the     *)
(* queue twice or after it was taken off, seen_urls is exactly the set of   *)
(* URLs enqueued, and every URL in visited_urls is in seen_urls.            *)
C35_EnqueuedAtMostOnce ==
    /\ \A i \in 1..Len(queue) : \A j \in 1..Len(queue) : i # j => queue[i].url # queue[j].url
    /\ QueuedUrls \cap visited_urls = {}
    /\ seen_urls = EnqueuedUrls
    /\ visited_urls \subseteq seen_urls

(* C35, amended: every URL but the start URL is put on the queue at most    *)
(* once, and apart from the start URL seen_urls is the set of URLs          *)
(* enqueued; the start URL is seeded without being added to seen_urls, so   *)
(* a link to it puts it on the queue once more.                             *)
C35_EnqueuedAtMostOnceButStart ==
    /\ \A i \in 1..Len(queue) : \A j \in 1..Len(queue) :
          (i # j /\ queue[i].url # SeedUrl) => queue[i].url # queue[j].url
    /\ (QueuedUrls \cap visited_urls) \subseteq {SeedUrl}
    /\ seen_urls \ {SeedUrl} = EnqueuedUrls \ {SeedUrl}
    /\ visited_urls \subseteq seen_urls \cup {SeedUrl}
    /\ Cardinality({i \in 1..Len(queue) : queue[i].url = SeedUrl}) <= 1

(* the start URL waits on the queue a second time, next to another URL *)
C35_Witness ==
    /\ SeedUrl \in visited_urls
    /\ SeedUrl \in QueuedUrls
    /\ SeedUrl \in seen_urls
    /\ Len(queue) >= 2

(***************************************************************************)
(* Properties of a crawl that meets errors (specification SpecCrawlErrors) *)
(***************************************************************************)
(* the URLs of the Items collected *)
ResultUrls == {results[i] : i \in 1..Len(results)}

(* when read() returns, the queue is empty and every URL that was put on   *)
(* it was taken off and, unless robots.txt, the ad filter or the scope     *)
(* check dropped it, fetched                                               *)
CrawlRanToTheEnd ==
    crawl_pc = "returned" =>
        /\ queue = <<>>
        /\ {fetched[i] : i \in 1..Len(fetched)} = {u \in EnqueuedUrls : ~Skipped(u)}

(* C37 as stated: a URL whose fetch or parse met an error, or whose answer  *)
(* was not 200, contributes no Item, every URL without one contributes its  *)
(* Item, and the crawl goes on to the end.                                  *)
C37_ErrorUrlHasNoItem ==
    /\ Len(outcomes) = Len(fetched)
    /\ \A i \in 1..Len(outcomes) : outcomes[i] = "ok" <=> fetched[i] \in ResultUrls
    /\ CrawlRanToTheEnd

(* C37, amended: a URL whose request failed, whose answer was not 200 or    *)
(* whose parsing failed altogether contributes no Item; a page whose links  *)
(* could not be read contributes its Item and no links; every other URL     *)
(* contributes its Item, and the crawl goes on to the end.                  *)
C37_FailedUrlHasNoItem ==
    /\ Len(outcomes) = Len(fetched)
    /\ \A i \in 1..Len(outcomes) : outcomes[i] # "skip" <=> fetched[i] \in ResultUrls
    /\ CrawlRanToTheEnd

(* read() has returned after a failed fetch that was followed by a fetch    *)
(* that succeeded and by a page whose links could not be read               *)
C37_Witness ==
    /\ crawl_pc = "returned"
    /\ Len(outcomes) >= 3
    /\ outcomes[1] = "ok"
    /\ outcomes[2] = "skip"
    /\ \E i \in 3..Len(outcomes) : outcomes[i] = "ok"
    /\ \E i \in 3..Len(outcomes) : outcomes[i] = "links_error"
    /\ Len(results) = Len(outcomes) - 1

(***************************************************************************)
(* Properties of the crawl of a site that answers the same way every time  *)
(* (specification SpecCrawlSite)                                           *)
(***************************************************************************)
(* a URL the crawl may fetch: in scope, no ad link, not disallowed *)
MayFetch(u) == ~Skipped(u)

(* the URLs one link away from a page of US that the crawl may fetch and   *)
(* that answers with a page                                                *)
LinkedFrom(US) ==
    UNION {{NormalizeUrl(LinksOf(site, u)[i]) : i \in 1..Len(LinksOf(site, u))} :
              u \in {v \in US : MayFetch(v) /\ PageKind(v) = "html"}}

(* the URLs at most d links away from the start URL *)
RECURSIVE WithinLinks(_)
WithinLinks(d) ==
    IF d = 0 THEN {NormalizeUrl(SelfStartUrl)}
    ELSE WithinLinks(d - 1) \cup LinkedFrom(WithinLinks(d - 1))

(* the in-scope, fetchable URLs at most max_depth links away *)
WithinMaxDepth ==
    {u \in WithinLinks(max_depth) : MayFetch(u) /\ PageKind(u) # "skip"}

(* C27: whatever the interleaving of the workers, the URLs of the results  *)
(* of a finished crawl are exactly the in-scope, fetchable URLs whose      *)
(* shortest link distance from the start URL is at most max_depth.         *)
C27_ResultsAreUrlsWithinMaxDepth ==
    crawl_pc = "returned" => SeqToSet(results) = WithinMaxDepth


(* C36: no URL is fetched at a depth greater than max_depth: every URL on   *)
(* the queue and every URL a worker fetches has a depth of at most          *)
(* max_depth, and with max_depth = 0 only the start URL is fetched.         *)
C36_NoFetchBeyondMaxDepth ==
    /\ \A i \in 1..Len(queue) : queue[i].depth <= max_depth
    /\ \A w \in Workers : worker[w].pc \in {"sem", "fetch"} => worker[w].depth <= max_depth
    /\ max_depth = 0 => \A i \in 1..Len(fetched) : fetched[i] = SeedUrl

(* a page found max_depth links from the start is being fetched, after the *)
(* pages that led to it                                                    *)
C36_Witness ==
    /\ max_depth = MaxDepth
    /\ site = "deep"
    /\ \E w \in Workers : worker[w].pc = "fetch" /\ worker[w].depth = max_depth
    /\ Len(fetched) >= max_depth


(***************************************************************************)
(* Properties of EmailSource (specification SpecEmail)                     *)
(***************************************************************************)
UidsOf(items) == {items[i].uid : i \in 1..Len(items)}

(* this run has reset_state=false and follows a run against the same       *)
(* mailbox contents and the same state file                                *)
SecondRunOnSameMailbox ==
    /\ email_pc = "returned"
    /\ prev_run.ran
    /\ ~reset_state
    /\ prev_run.mailbox = mailbox

(* C21 as stated: for every mailbox and every max_emails, the second of two *)
(* runs against the same mailbox contents with reset_state=false and the   *)
(* same state file yields zero Items.                                      *)
C21_SecondRunYieldsNothing == SecondRunOnSameMailbox => email_ret = <<>>

(* C21: when the first run fetched every message of the mailbox that was   *)
(* not yet seen (no more than max_emails of them, every fetch succeeded)   *)
(* and wrote the state file, the second run against the same mailbox       *)
(* contents with reset_state=false yields zero Items.                      *)
C21_SecondRunAfterCompleteRun ==
    (SecondRunOnSameMailbox /\ prev_run.complete) => email_ret = <<>>

C21_Witness ==
    /\ SecondRunOnSameMailbox
    /\ prev_run.complete
    /\ Cardinality(mailbox) > 1
    /\ failed_at = "none"
    /\ email_ret = <<>>

(* every message of the mailbox was listed by FETCH (UID) *)
ListedAll == SeqToSet(uid_list) = mailbox

(* the mailbox of the example, FirstUid..FirstUid+MaxUids-1, and the       *)
(* message that arrives after the first run                                *)
ExampleMailbox == FirstUid..(FirstUid + MaxUids - 1)

ExampleNewUid == FirstUid + MaxUids

(* the first run of the example: nothing seen, max_emails=50 *)
ExampleFirstRun ==
    /\ email_pc = "returned"
    /\ ~prev_run.ran
    /\ SeenBefore = {}
    /\ mailbox = ExampleMailbox
    /\ max_emails = DefaultMaxEmails
    /\ FetchesOk

(* the second run of the example, after the new message arrived *)
ExampleSecondRun ==
    /\ email_pc = "returned"
    /\ prev_run.ran
    /\ prev_run.mailbox = ExampleMailbox
    /\ prev_run.fetches_ok
    /\ ~reset_state
    /\ file_before = File(ExampleMailbox)
    /\ mailbox = ExampleMailbox \cup {ExampleNewUid}
    /\ max_emails = DefaultMaxEmails
    /\ FetchesOk

SomeFetchFailed ==
    /\ email_pc = "returned"
    /\ saved # "none"
    /\ \E u \in Uids : task[u] = "failed"

AllItemsOf(u, items) ==
    \A k \in 1..Len(EmailItems(u)) : \E i \in 1..Len(items) : items[i] = EmailItems(u)[k]

C25_SessionLoggedOut ==
    email_pc \in {"returned", "ingested"} =>
        \/ session = "closed"
        \/ session = "none" /\ failed_at = "hello"

C25_Witness ==
    /\ email_pc = "returned"
    /\ failed_at = "login"
    /\ session = "closed"

(* C38: in one run LOGOUT is issued at most once, whatever the way out,    *)
(* and no command is issued on the connection after it: once the session  *)
(* is logged out the run takes no further step before read() returns.     *)
C38_LogoutIssuedOnce ==
    [][session = "closed" =>
          \/ email_pc \in {"returned", "ingested"}
          \/ email_pc' = email_pc]_vars

(* C29: a UID is in the persisted seen set only if its Items were ingested *)
(* with success: a message with an Item that failed in a processor or a    *)
(* sink is not in the state file, and the next run with reset_state=false  *)
(* fetches it again.                                                       *)
C29_SeenOnlyIfIngested ==
    email_pc = "ingested" =>
        \A u \in ingest_failed : u \notin LoadSeenUids(FALSE, state_file)


(* the UIDs this run made a fetch_email task for *)
FetchTasks == {u \in Uids : task[u] # "none"}

(* the UIDs this run listed that were not seen when it began *)
ListedUnseen == SeqToSet(uid_list) \ SeenBefore

(* C34: the UIDs a run fetches are the max_emails numerically largest       *)
(* UIDs not in seen_uids, all of them if there are fewer, so at most        *)
(* max_emails messages are fetched, for every max_emails >= 0.              *)
C34_FetchesNewestMaxEmails ==
    email_pc = "gather" =>
        /\ Cardinality(FetchTasks) <= max_emails
        /\ FetchTasks \subseteq ListedUnseen
        /\ \A u \in FetchTasks : \A v \in ListedUnseen \ FetchTasks : v < u
        /\ Cardinality(ListedUnseen) <= max_emails => FetchTasks = ListedUnseen
        /\ Cardinality(ListedUnseen) > max_emails => Cardinality(FetchTasks) = max_emails

(***************************************************************************)
(* Properties of CleanProcessor applied twice (specification SpecClean)    *)
(***************************************************************************)
(* C26: CleanProcessor is idempotent: cleaning the cleaned text returns it *)
(* unchanged.                                                              *)
C26_CleanIsIdempotent == clean_pc = "twice" => cleaned_twice = cleaned_once

(***************************************************************************)
(* Properties of ChunkProcessor on its own (specification SpecChunk)       *)
(***************************************************************************)
(* C39: every chunk ChunkProcessor returns is non-empty and no longer than *)
(* chunk_size, and an empty clean_text gives the empty list of chunks.     *)
C39_ChunksNonEmptyAndBounded ==
    content_pc = "EmbedProcessor" =>
        /\ \A i \in 1..Len(chunks) : chunks[i] # <<>> /\ Len(chunks[i]) <= chunk_size
        /\ clean_text = <<>> => chunks = <<>>

(* a run of letters longer than chunk_size, with no separator in it, has   *)
(* been split                                                               *)
C39_Witness ==
    /\ content_pc = "EmbedProcessor"
    /\ Len(clean_text) > chunk_size
    /\ \A i \in 1..Len(clean_text) : clean_text[i] = "a"
    /\ Len(chunks) >= 2

====
